---- MODULE Spec2Model ----
(***************************************************************************)
(* HAventory card: the client store (cards/haventory-card/src/store/       *)
(* store.ts), its WebSocket client (store/ws.ts) and the backend's item    *)
(* commands as far as the store observes them.                             *)
(*                                                                         *)
(* An async method of Store runs synchronously up to its first await, so   *)
(* the part before the await is one action (the call) and the part after   *)
(* it is another (the continuation on success or on failure).  Between the *)
(* two the backend handles the request, other clients write, and push      *)
(* events are delivered to the subscription callback.                      *)
(***************************************************************************)
EXTENDS Integers, Sequences, FiniteSets, TLC

(* ---------- bounds of the model ---------- *)
MaxCalls == 1        \* operations the UI calls on the store (init apart)
MaxOther == 1        \* writes made by other clients of the backend
MaxNow   == 1        \* readings of Date.now() the model distinguishes

(* ---------- values ---------- *)
NULL  == "null"          \* JavaScript null (string-typed fields)
UNDEF == "undefined"     \* JavaScript undefined (string-typed fields)
NoThreshold == -1        \* low_stock_threshold: null
NoVersion   == 0         \* expectedVersion: undefined

SeedIds == {"i1", "i2"}  \* items the backend holds at start
NewIds  == {"i3"}        \* ids the backend assigns to created items
AllIds  == SeedIds \cup NewIds

ItemFields == {"id", "name", "quantity", "checked_out", "due_date",
               "location_id", "low_stock_threshold", "version"}

MkItem(id, name, q, co, due, loc, thr, v) ==
  [id |-> id, name |-> name, quantity |-> q, checked_out |-> co,
   due_date |-> due, location_id |-> loc, low_stock_threshold |-> thr,
   version |-> v]

(* an optional value is a set with at most one element *)
None == {}
Some(x) == {x}
The(s) == CHOOSE x \in s : TRUE

VARIABLES
  items,        \* StoreState.items
  cursor,       \* StoreState.cursor
  pendingOps,   \* StoreState.pendingOps: opId -> [kind, itemId]
  errorQueue,   \* StoreState.errorQueue
  inflight,     \* Store.inflight: keys of the outstanding list requests
  connected,    \* StoreState.connected.items (items subscription active)
  initPc,       \* position of Store.init
  calls,        \* outstanding remote requests with their closures
  nWrites,      \* operations the UI has called so far (request number)
  nErr,         \* error entries created so far (entry id)
  now,          \* Date.now()
  srv,          \* backend: id -> Some(item) or None
  srvUsed,      \* backend: ids ever assigned
  nOther,       \* writes of other clients so far
  events,       \* push events sent to this connection, not yet delivered
  last,         \* the store step taken last
  filters,      \* StoreState.filters: locationId and includeSubtree
  initKey,      \* the list request Store.init awaits (its key), if any
  subs,         \* the connection's active subscriptions
  itemsUnsub,   \* Store.itemsUnsub: the id it unsubscribes, 0 for null
  statsUnsub,   \* Store.statsUnsub
  locationsUnsub,      \* Store.locationsUnsub
  nextSubscriptionId,  \* ws.ts: nextSubscriptionId
  locEvents,    \* locations events sent to this connection, not yet delivered
  bulk,         \* backend: the last haventory/items/bulk batch and its outcome
  timeoutId,    \* debounce: timeoutId of the closure, 0 for undefined
  timers,       \* window: the timeouts set and neither run nor cleared
  nextTimer,    \* window: the id the next setTimeout returns
  clock,        \* time in units of the model
  debCalls,     \* the calls of the debounced function so far: [at, args]
  fnRuns,       \* the runs of the wrapped function so far: [at, args, n]
  _name,        \* HVItemDialog._name
  _quantity,    \* HVItemDialog._quantity, in halves (3 is 1.5)
  _lowStock,    \* HVItemDialog._lowStock, in halves, NoLowStock for null
  _checkedOut,  \* HVItemDialog._checkedOut
  _dueDate,     \* HVItemDialog._dueDate
  _validation,  \* HVItemDialog._validation, NULL for null
  saved,        \* the detail of the save event the last onSave sent, if any
  presses,      \* calls of onSave so far
  dlgItem,      \* the item property of the card's hv-item-dialog
  _hass,        \* HAventoryCard._hass: TRUE for a connection, FALSE for undefined
  cardStore,    \* HAventoryCard.store is set
  _storeUnsub,  \* HAventoryCard._storeUnsub: the listener it removes, 0 for undefined
  listeners,    \* the listeners of the store's observable
  nextListener, \* the next listener that onChange adds
  nStores,      \* Store objects the card has created
  nInits,       \* calls of Store.init by the card
  nHassSets,    \* times the hass property has been set
  nCallbacks    \* connect and disconnect callbacks so far

subVars == <<subs, itemsUnsub, statsUnsub, locationsUnsub, nextSubscriptionId>>

debounceVars == <<timeoutId, timers, nextTimer, clock, debCalls, fnRuns>>

\* _lowStock: null
NoLowStock == -1000

dialogVars == <<_name, _quantity, _lowStock, _checkedOut, _dueDate,
                _validation, saved, presses, dlgItem>>

cardVars == <<_hass, cardStore, _storeUnsub, listeners, nextListener,
              nStores, nInits, nHassSets, nCallbacks>>

\* the state of what is modelled beside the store and its requests
asideVars == <<bulk, debounceVars, dialogVars, cardVars>>

\* the store, its requests and the backend
coreVars == <<items, cursor, pendingOps, errorQueue, inflight, connected,
              initPc, calls, nWrites, nErr, now, srv, srvUsed, nOther, events,
              last, filters, initKey, subVars, locEvents>>

vars == <<items, cursor, pendingOps, errorQueue, inflight, connected, initPc,
          calls, nWrites, nErr, now, srv, srvUsed, nOther, events,
          last, filters, initKey, subVars, locEvents, asideVars>>


(* ---------- pure helpers of store.ts ---------- *)

\* Array.prototype.findIndex on ids, 1-based; 0 stands for JavaScript's -1
FindIndex(its, id) ==
  IF \E i \in 1..Len(its) : its[i].id = id
  THEN CHOOSE i \in 1..Len(its) :
         its[i].id = id /\ \A j \in 1..(i - 1) : its[j].id # id
  ELSE 0

\* this.state.value.items.find((i) => i.id === itemId)
Find(its, id) ==
  IF FindIndex(its, id) = 0 THEN None ELSE Some(its[FindIndex(its, id)])

\* applyOptimistic that leaves an entry it finds as it is
applyOptimistic_InsertOnly(its, item) ==
  IF FindIndex(its, item.id) > 0 THEN its ELSE <<item>> \o its

\* Store.applyOptimistic
applyOptimistic(its, item) ==
  IF FindIndex(its, item.id) > 0
  THEN [its EXCEPT ![FindIndex(its, item.id)] = item]
  ELSE <<item>> \o its

\* removeById that filters nothing out
removeById_Keep(its, itemId) == its

\* Store.removeById
removeById(its, itemId) == SelectSeq(its, LAMBDA x : x.id # itemId)

\* the value the Map of mergeUniqueById holds for an id: the last incoming
\* entry with that id, else the last existing one
MergeMapGet(existing, incoming, id) ==
  IF \E i \in 1..Len(incoming) : incoming[i].id = id
  THEN incoming[CHOOSE i \in 1..Len(incoming) :
                  incoming[i].id = id
                  /\ \A j \in (i + 1)..Len(incoming) : incoming[j].id # id]
  ELSE existing[CHOOSE i \in 1..Len(existing) :
                  existing[i].id = id
                  /\ \A j \in (i + 1)..Len(existing) : existing[j].id # id]

\* mergeUniqueById without the filter on the incoming entries
mergeUniqueById_Concat(existing, incoming) ==
  [i \in 1..Len(existing) |-> MergeMapGet(existing, incoming, existing[i].id)]
  \o incoming

\* mergeUniqueById
mergeUniqueById(existing, incoming) ==
  [i \in 1..Len(existing) |-> MergeMapGet(existing, incoming, existing[i].id)]
  \o SelectSeq(incoming, LAMBDA x : FindIndex(existing, x.id) = 0)

\* { ...before, ...changes }
Spread(before, changes) ==
  [f \in DOMAIN before \cup DOMAIN changes |->
     IF f \in DOMAIN changes THEN changes[f] ELSE before[f]]

\* a write method that applies `before` itself
Speculative_Unpatched(op, before, arg) == before

\* the speculative item each write method builds from `before`
Speculative(op, before, arg) ==
  CASE op = "update"          -> Spread(before, arg)
    [] op = "adjust_quantity" -> [before EXCEPT !.quantity = before.quantity + arg.delta]
    [] op = "set_quantity"    -> [before EXCEPT !.quantity = arg.quantity]
    [] op = "check_out"       -> [before EXCEPT !.checked_out = TRUE,
                                   !.due_date = IF arg.due_date \in {NULL, UNDEF}
                                                THEN before.due_date
                                                ELSE arg.due_date]
    [] op = "check_in"        -> [before EXCEPT !.checked_out = FALSE]
    [] op = "set_low_stock_threshold" ->
                                 [before EXCEPT !.low_stock_threshold = arg.low_stock_threshold]
    [] op = "move"            -> [before EXCEPT !.location_id = arg.location_id]

\* the `details` argument each method passes to pushError
ErrorDetails(op, itemId, arg) ==
  IF op = "update"
  THEN [itemId |-> itemId, changes |-> Some(arg)]
  ELSE [itemId |-> UNDEF, changes |-> None]

\* pushError that does not tell conflicts from other errors
ErrorEntry_KindError(id, code, details) ==
  [id |-> id, code |-> IF code = UNDEF THEN "unknown_error" ELSE code,
   kind |-> "error", itemId |-> details.itemId, changes |-> details.changes]

\* the entry Store.pushError builds; `code` is err.code or UNDEF
ErrorEntry(id, code, details) ==
  LET c == IF code = UNDEF THEN "unknown_error" ELSE code
  IN [id |-> id, code |-> c,
      kind |-> IF c = "conflict" THEN "conflict" ELSE "error",
      itemId |-> details.itemId, changes |-> details.changes]

\* Store.pushError
pushError(q, id, code, details) == q \o <<ErrorEntry(id, code, details)>>

\* onItemsEvent that inserts without looking for the id
onItemsEvent_AlwaysInsert(its, evt) ==
  IF evt.action = "deleted" THEN SelectSeq(its, LAMBDA x : x.id # evt.item.id)
  ELSE <<evt.item>> \o its

\* Store.onItemsEvent
onItemsEvent(its, evt) ==
  IF evt.topic # "items" THEN its
  ELSE IF evt.action \in {"created", "updated", "moved", "checked_out",
                           "checked_in", "quantity_changed"}
       THEN IF FindIndex(its, evt.item.id) > 0
            THEN [its EXCEPT ![FindIndex(its, evt.item.id)] = evt.item]
            ELSE <<evt.item>> \o its
  ELSE IF evt.action = "deleted"
       THEN IF FindIndex(its, evt.item.id) > 0
            THEN [i \in 1..(Len(its) - 1) |->
                    IF i < FindIndex(its, evt.item.id) THEN its[i] ELSE its[i + 1]]
            ELSE its
  ELSE its

\* entries of a Map after set(k, v) / delete(k)
MapSet(m, k, v) == [x \in DOMAIN m \cup {k} |-> IF x = k THEN v ELSE m[x]]
MapDelete(m, k) == [x \in DOMAIN m \ {k} |-> m[x]]


(* ---------- the backend, as the WebSocket contract describes it ---------- *)

PageLimit == 2   \* `limit` of Store.listItems (50), scaled to the item sets

IdRank(id) == CASE id = "i1" -> 1 [] id = "i2" -> 2 [] id = "i3" -> 3 [] OTHER -> 0

\* ids of the stored items, in list order
RECURSIVE SortedIds(_)
SortedIds(S) ==
  IF S = {} THEN <<>>
  ELSE LET m == CHOOSE x \in S : \A y \in S : IdRank(x) <= IdRank(y)
       IN <<m>> \o SortedIds(S \ {m})

Take(s, n) == IF Len(s) <= n THEN s ELSE SubSeq(s, 1, n)

\* the ids on the path to a location (id_path): "L2" lies beneath "L1"
IdPath(loc) ==
  CASE loc = "L1" -> <<"L1">> [] loc = "L2" -> <<"L1", "L2">> [] OTHER -> <<>>

\* a scope test that takes every scope as a subtree scope
SrvInScope_AlwaysSubtree(item, location_id, include_subtree) ==
  \/ location_id \in {NULL, UNDEF}
  \/ \E i \in 1..Len(IdPath(item.location_id)) :
       IdPath(item.location_id)[i] = location_id

\* the location scope of a list filter or of an items subscription
SrvInScope(item, location_id, include_subtree) ==
  \/ location_id \in {NULL, UNDEF}
  \/ /\ include_subtree
     /\ \E i \in 1..Len(IdPath(item.location_id)) :
          IdPath(item.location_id)[i] = location_id
  \/ /\ ~include_subtree
     /\ item.location_id = location_id

\* haventory/item/list: the entries the filter admits, after the cursor
SrvListIds(store, q) ==
  SortedIds({id \in AllIds :
               /\ store[id] # None
               /\ SrvInScope(The(store[id]), q.location_id, q.include_subtree)
               /\ (q.cursor = UNDEF \/ IdRank(id) > IdRank(q.cursor))})

SrvPage(store, q) ==
  LET ids == Take(SrvListIds(store, q), PageLimit)
  IN [i \in 1..Len(ids) |-> The(store[ids[i]])]

SrvNextCursor(store, q) ==
  LET ids == SrvListIds(store, q)
  IN IF Len(ids) > PageLimit THEN ids[PageLimit] ELSE NULL

\* a command applied without a new version number
SrvApply_KeepVersion(op, it, arg) ==
  LET ch == CASE op = "update"          -> Spread(it, arg)
              [] op = "adjust_quantity" -> [it EXCEPT !.quantity = it.quantity + arg.delta]
              [] op = "set_quantity"    -> [it EXCEPT !.quantity = arg.quantity]
              [] op = "check_out"       -> [it EXCEPT !.checked_out = TRUE,
                                              !.due_date = IF arg.due_date = UNDEF
                                                           THEN it.due_date
                                                           ELSE arg.due_date]
              [] op = "check_in"        -> [it EXCEPT !.checked_out = FALSE,
                                              !.due_date = NULL]
              [] op = "set_low_stock_threshold" ->
                                           [it EXCEPT !.low_stock_threshold = arg.low_stock_threshold]
              [] op = "move"            -> [it EXCEPT !.location_id = arg.location_id]
              [] op = "delete"          -> it
  IN ch

\* the item a mutating command stores: the change applied, version + 1
SrvApply(op, it, arg) ==
  LET ch == CASE op = "update"          -> Spread(it, arg)
              [] op = "adjust_quantity" -> [it EXCEPT !.quantity = it.quantity + arg.delta]
              [] op = "set_quantity"    -> [it EXCEPT !.quantity = arg.quantity]
              [] op = "check_out"       -> [it EXCEPT !.checked_out = TRUE,
                                              !.due_date = IF arg.due_date = UNDEF
                                                           THEN it.due_date
                                                           ELSE arg.due_date]
              [] op = "check_in"        -> [it EXCEPT !.checked_out = FALSE,
                                              !.due_date = NULL]
              [] op = "set_low_stock_threshold" ->
                                           [it EXCEPT !.low_stock_threshold = arg.low_stock_threshold]
              [] op = "move"            -> [it EXCEPT !.location_id = arg.location_id]
              [] op = "delete"          -> it
  IN IF op = "delete" THEN ch ELSE [ch EXCEPT !.version = it.version + 1]

\* the error code when the expected version is not compared
SrvError_AnyVersion(op, cur, arg, ev) ==
  IF cur = None THEN "not_found"
  ELSE IF op # "delete" /\ SrvApply(op, The(cur), arg).quantity < 0
       THEN "validation_error"
  ELSE IF op # "delete" /\ ~SrvApply(op, The(cur), arg).checked_out
          /\ SrvApply(op, The(cur), arg).due_date # NULL
          /\ op = "update" /\ "due_date" \in DOMAIN arg
       THEN "validation_error"
  ELSE "-"

\* the error code of a command on an existing item, "-" when it is accepted
SrvError(op, cur, arg, ev) ==
  IF cur = None THEN "not_found"
  ELSE IF ev # NoVersion /\ ev # The(cur).version THEN "conflict"
  ELSE IF op # "delete" /\ SrvApply(op, The(cur), arg).quantity < 0
       THEN "validation_error"
  ELSE IF op # "delete" /\ ~SrvApply(op, The(cur), arg).checked_out
          /\ SrvApply(op, The(cur), arg).due_date # NULL
          /\ op = "update" /\ "due_date" \in DOMAIN arg
       THEN "validation_error"
  ELSE "-"

\* the action name of the items event a command emits
SrvEventAction(op, old, new) ==
  CASE op = "create" -> "created"
    [] op = "update" -> IF old.location_id # new.location_id THEN "moved" ELSE "updated"
    [] op = "delete" -> "deleted"
    [] op \in {"adjust_quantity", "set_quantity"} -> "quantity_changed"
    [] op = "check_out" -> "checked_out"
    [] op = "check_in" -> "checked_in"
    [] op = "set_low_stock_threshold" -> "updated"
    [] op = "move" -> "moved"

ItemsEvent(action, item) == [topic |-> "items", action |-> action, item |-> item]

\* haventory/item/create: a fresh id, version 1
SrvCreate(id, input) ==
  MkItem(id, input.name, input.quantity, FALSE, NULL, NULL, NoThreshold, 1)

\* the items subscriptions an item change is delivered to
SrvMatching(ss, item) ==
  {s \in ss : s.topic = "items"
              /\ SrvInScope(item, s.location_id, s.include_subtree)}

\* fan-out: one event message per matching subscription, tagged with its id
RECURSIVE Emit(_, _, _)
Emit(evs, S, evt) ==
  IF S = {} THEN evs
  ELSE LET s == CHOOSE x \in S : \A y \in S : x.id <= y.id
       IN Emit(Append(evs, [topic |-> evt.topic, action |-> evt.action,
                            item |-> evt.item, sub |-> s.id]),
               S \ {s}, evt)


\* the n-th change of a location, fanned out the same way
RECURSIVE EmitLocations(_, _, _)
EmitLocations(evs, S, n) ==
  IF S = {} THEN evs
  ELSE LET s == CHOOSE x \in S : \A y \in S : x.id <= y.id
       IN EmitLocations(Append(evs, [topic |-> "locations", n |-> n, sub |-> s.id]),
                        S \ {s}, n)


(* ---------- inputs ---------- *)

UpdateOps == {"update", "adjust_quantity", "set_quantity", "check_out",
              "check_in", "set_low_stock_threshold", "move"}

\* arguments the UI passes; a record names the request fields they become
Args(op) ==
  CASE op = "update"          -> {[name |-> "B", quantity |-> 3]}
    [] op = "adjust_quantity" -> {[delta |-> -1], [delta |-> 1]}
    [] op = "set_quantity"    -> {[quantity |-> 2]}
    [] op = "check_out"       -> {[due_date |-> NULL], [due_date |-> "d1"]}
    [] op = "check_in"        -> {[checked_out |-> FALSE]}
    [] op = "set_low_stock_threshold" -> {[low_stock_threshold |-> 1]}
    [] op = "move"            -> {[location_id |-> "L1"]}
    [] op = "delete"          -> {[item_id |-> TRUE]}

ExpectedVersions(op) ==
  IF op \in {"update", "delete"} THEN {NoVersion, 1} ELSE {NoVersion}

CreateInputs == {[name |-> "C", quantity |-> 5]}

\* a request that never reaches the handler, or whose result is lost
LostCodes == {UNDEF}

\* the items the UI writes to: one that the first page holds behind
\* another one, and one that exists only once somebody has created it
WriteTargets(op) == IF op \in {"update", "delete"} THEN {"i2", "i3"} ELSE {"i2"}

\* the filter changes the UI makes
FilterPatches == {[locationId |-> "L1"], [includeSubtree |-> FALSE]}

\* what other clients do
OtherOps == {"update", "delete"}
OtherTargets == {"i2"}

(* ---------- state after construction ---------- *)

SeedItem(id) ==
  CASE id = "i1" -> MkItem("i1", "A", 1, FALSE, NULL, NULL, NoThreshold, 1)
    [] id = "i2" -> MkItem("i2", "A", 0, TRUE, "d1", NULL, 0, 1)

NoStep == [act |-> "new", op |-> "-", itemId |-> "-", cached |-> FALSE]

\* the filters the constructor sets, as far as the model varies them
DefaultFilters == [locationId |-> NULL, includeSubtree |-> TRUE]

Init ==
  /\ items = <<>>
  /\ cursor = NULL
  /\ pendingOps = <<>>
  /\ errorQueue = <<>>
  /\ inflight = {}
  /\ connected = FALSE
  /\ initPc = "new"
  /\ calls = {}
  /\ nWrites = 0
  /\ nErr = 0
  /\ now = 0
  /\ srv = [id \in AllIds |-> IF id \in SeedIds THEN Some(SeedItem(id)) ELSE None]
  /\ srvUsed = SeedIds
  /\ nOther = 0
  /\ events = <<>>
  /\ last = NoStep
  /\ filters = DefaultFilters
  /\ initKey = None
  /\ subs = {}
  /\ itemsUnsub = 0
  /\ statsUnsub = 0
  /\ locationsUnsub = 0
  /\ nextSubscriptionId = 1
  /\ locEvents = <<>>
  /\ bulk = None
  /\ timeoutId = 0
  /\ timers = {}
  /\ nextTimer = 1
  /\ clock = 0
  /\ debCalls = <<>>
  /\ fnRuns = <<>>
  /\ _name = ""
  /\ _quantity = 2
  /\ _lowStock = NoLowStock
  /\ _checkedOut = FALSE
  /\ _dueDate = ""
  /\ _validation = NULL
  /\ saved = None
  /\ presses = 0
  /\ dlgItem = None
  /\ _hass = FALSE
  /\ cardStore = FALSE
  /\ _storeUnsub = 0
  /\ listeners = {}
  /\ nextListener = 1
  /\ nStores = 0
  /\ nInits = 0
  /\ nHassSets = 0
  /\ nCallbacks = 0

\* the record of a store step: what ran, for which operation or event, on
\* which item, and whether the step started with that item in the cache
Step(act, op, itemId) ==
  [act |-> act, op |-> op, itemId |-> itemId,
   cached |-> FindIndex(items, itemId) > 0]

\* an outstanding request with the closure of the method that awaits it;
\* `at` is not program state: it remembers the index `before` was found at
Request(op, itemId, arg, ev, before, opId, by) ==
  [n |-> IF by = "init" THEN 0 ELSE nWrites + 1, op |-> op,
   itemId |-> itemId, arg |-> arg, ev |-> ev,
   before |-> before, at |-> FindIndex(items, itemId), opId |-> opId, by |-> by,
   st |-> "sent", res |-> None, page |-> <<>>, next |-> NULL, code |-> "-"]


(* ---------- Store: subscriptions ---------- *)

\* the options subscribeTopics passes for the items topic
ItemsScope(f) ==
  [location_id |-> IF f.locationId = NULL THEN UNDEF ELSE f.locationId,
   include_subtree |-> f.includeSubtree]

\* the subscribe message WSClient.subscribe sends
Subscription(id, topic, opts) ==
  IF opts = None
  THEN [id |-> id, topic |-> topic]
  ELSE [id |-> id, topic |-> topic,
        location_id |-> IF The(opts).location_id = UNDEF THEN NULL
                        ELSE The(opts).location_id,
        include_subtree |-> The(opts).include_subtree]

\* Store.subscribeTopics, given the filters it reads: each held
\* unsubscribe function is called (its subscription ends and what was sent
\* for it reaches no callback any more), three subscriptions are made
subscribeTopics(f) ==
  LET held == {itemsUnsub, statsUnsub, locationsUnsub} \ {0}
      id   == nextSubscriptionId
  IN /\ subs' = {s \in subs : s.id \notin held} \cup
                {Subscription(id, "items", Some(ItemsScope(f))),
                 Subscription(id + 1, "stats", None),
                 Subscription(id + 2, "locations", None)}
     /\ itemsUnsub' = id
     /\ statsUnsub' = id + 1
     /\ locationsUnsub' = id + 2
     /\ nextSubscriptionId' = id + 3
     /\ events' = SelectSeq(events, LAMBDA e : e.sub \notin held)
     /\ locEvents' = SelectSeq(locEvents, LAMBDA e : e.sub \notin held)
     /\ connected' = TRUE


(* ---------- Store: listing ---------- *)

\* the de-duplication key of Store.listItems: JSON.stringify of op, filter,
\* sort, limit and cursor; the parts the model varies are the filter's
\* location_id and include_subtree and the cursor (undefined on a reset
\* and when the stored cursor is null)
ListKey(f, cur, reset) ==
  [location_id |-> IF f.locationId = NULL THEN UNDEF ELSE f.locationId,
   include_subtree |-> f.includeSubtree,
   cursor |-> IF reset \/ cur = NULL THEN UNDEF ELSE cur]

\* listItems without the look-up in the inflight map
IssueList_NoDedupe(f, cur, reset, by, out) ==
  /\ calls' = out \cup
               {Request("list", "-",
                        [reset |-> reset, key |-> ListKey(f, cur, reset)],
                        NoVersion, None, None, by)}
  /\ inflight' = inflight \cup {ListKey(f, cur, reset)}

\* Store.listItems up to the request, given the filters and the cursor it
\* reads and the requests outstanding: with the key in flight the pending
\* promise is returned and nothing is sent
IssueList(f, cur, reset, by, out) ==
  IF ListKey(f, cur, reset) \in inflight
  THEN /\ calls' = out
       /\ inflight' = inflight
  ELSE /\ calls' = out \cup
                   {Request("list", "-",
                            [reset |-> reset, key |-> ListKey(f, cur, reset)],
                            NoVersion, None, None, by)}
       /\ inflight' = inflight \cup {ListKey(f, cur, reset)}

\* The requests of one Promise.all over refresh methods (stats, areas,
\* location tree and location list in init; location list and location
\* tree on a locations event) are tracked as one outstanding request:
\* their results set statsCounts, areasCache, locationTreeCache and
\* locationsFlatCache, which nothing else in the model reads, so what the
\* rest of the store sees of them is the last result (Promise.all
\* resolves) or the first rejection (Promise.all rejects).
RefreshOps == {"refresh"}

\* Store.init up to its first await: the refresh requests go out
InitStart ==
  /\ UNCHANGED asideVars
  /\ initPc = "new"
  /\ initPc' = "refreshing"
  /\ calls' = calls \cup
              {Request("refresh", "-", [item_id |-> FALSE], NoVersion, None, None, "init")}
  /\ last' = Step("init", "refresh", "-")
  /\ UNCHANGED <<items, cursor, pendingOps, errorQueue, inflight, connected,
                 nWrites, nErr, now, srv, srvUsed, nOther, events, filters,
                 initKey, subVars, locEvents>>

\* refreshStats, refreshAreas, refreshLocationTree, refreshLocationsFlat
\* after the await, for the last result of a Promise.all: init goes on to
\* listItems(true)
RefreshOk(c) ==
  /\ UNCHANGED asideVars
  /\ c \in calls /\ c.op \in RefreshOps /\ c.st = "ok"
  /\ IF c.by = "init" /\ initPc = "refreshing"
     THEN /\ initPc' = "listing"
          /\ initKey' = Some(ListKey(filters, cursor, TRUE))
          /\ IssueList(filters, cursor, TRUE, "init", calls \ {c})
     ELSE /\ calls' = calls \ {c}
          /\ UNCHANGED <<initPc, initKey, inflight>>
  /\ last' = Step("ok", c.op, "-")
  /\ UNCHANGED <<items, cursor, pendingOps, errorQueue, connected, nWrites,
                 nErr, now, srv, srvUsed, nOther, events, filters, subVars,
                 locEvents>>

\* a refresh request is rejected: the method has no catch, Promise.all
\* rejects with the first rejection and init ends there
RefreshFail(c) ==
  /\ UNCHANGED asideVars
  /\ c \in calls /\ c.op \in RefreshOps /\ c.st = "err"
  /\ calls' = calls \ {c}
  /\ initPc' = IF c.by = "init" /\ initPc = "refreshing" THEN "failed" ELSE initPc
  /\ last' = Step("fail", c.op, "-")
  /\ UNCHANGED <<items, cursor, pendingOps, errorQueue, inflight, connected,
                 nWrites, nErr, now, srv, srvUsed, nOther, events, filters,
                 initKey, subVars, locEvents>>

\* prefetchIfNeeded without the scroll-ratio test
prefetchIfNeeded_AnyRatio(ratio) ==
  /\ UNCHANGED asideVars
  /\ IF cursor # NULL
     THEN IssueList(filters, cursor, FALSE, "prefetch", calls)
     ELSE UNCHANGED <<calls, inflight>>
  /\ last' = [act |-> "prefetch", op |-> "list", itemId |-> "-",
              cached |-> FALSE, ratio |-> ratio]
  /\ UNCHANGED <<items, cursor, pendingOps, errorQueue, connected, initPc,
                 nErr, now, srv, srvUsed, nOther, events, filters, initKey,
                 subVars, locEvents>>

\* Store.prefetchIfNeeded, the ratio in percent
prefetchIfNeeded(ratio) ==
  /\ UNCHANGED asideVars
  /\ IF ratio >= 70 /\ cursor # NULL
     THEN IssueList(filters, cursor, FALSE, "prefetch", calls)
     ELSE UNCHANGED <<calls, inflight>>
  /\ last' = [act |-> "prefetch", op |-> "list", itemId |-> "-",
              cached |-> FALSE, ratio |-> ratio]
  /\ UNCHANGED <<items, cursor, pendingOps, errorQueue, connected, initPc,
                 nErr, now, srv, srvUsed, nOther, events, filters, initKey,
                 subVars, locEvents>>

\* the card calls prefetchIfNeeded on a near-end event of the list
Prefetch(ratio) ==
  /\ initPc # "new"
  /\ nWrites < MaxCalls
  /\ nWrites' = nWrites + 1
  /\ prefetchIfNeeded(ratio)

\* setFilters that leaves the loaded items in place
setFilters_KeepItems(patch) ==
  /\ UNCHANGED asideVars
  /\ filters' = Spread(filters, patch)
  /\ cursor' = NULL
  /\ items' = items
  /\ subscribeTopics(filters')
  /\ IssueList(filters', NULL, TRUE, "setFilters", calls)
  /\ last' = Step("setFilters", "list", "-")
  /\ UNCHANGED <<pendingOps, errorQueue, initPc, nErr, now, srv, srvUsed,
                 nOther, initKey>>

\* Store.setFilters
setFilters(patch) ==
  /\ UNCHANGED asideVars
  /\ filters' = Spread(filters, patch)
  /\ cursor' = NULL
  /\ items' = <<>>
  /\ subscribeTopics(filters')
  /\ IssueList(filters', NULL, TRUE, "setFilters", calls)
  /\ last' = Step("setFilters", "list", "-")
  /\ UNCHANGED <<pendingOps, errorQueue, initPc, nErr, now, srv, srvUsed,
                 nOther, initKey>>

\* the card calls setFilters when a filter control changes
SetFilters(patch) ==
  /\ initPc # "new"
  /\ nWrites < MaxCalls
  /\ nWrites' = nWrites + 1
  /\ setFilters(patch)

\* the id of an entry of the page that the list holds already, if any
PageHit(its, page) ==
  IF \E i \in 1..Len(page) : FindIndex(its, page[i].id) > 0
  THEN page[CHOOSE i \in 1..Len(page) : FindIndex(its, page[i].id) > 0].id
  ELSE "-"

\* the .then and .finally of Store.listItems; when init awaits this
\* request it goes on to subscribeTopics
ListOk(c) ==
  /\ UNCHANGED asideVars
  /\ c \in calls /\ c.op = "list" /\ c.st = "ok"
  /\ items' = IF c.arg.reset THEN c.page ELSE mergeUniqueById(items, c.page)
  /\ cursor' = c.next
  /\ inflight' = inflight \ {c.arg.key}
  /\ calls' = calls \ {c}
  /\ IF initPc = "listing" /\ initKey = Some(c.arg.key)
     THEN /\ subscribeTopics(filters)
          /\ initPc' = "ready"
          /\ initKey' = None
     ELSE UNCHANGED <<connected, initPc, initKey, subVars, events, locEvents>>
  /\ last' = Step("ok", IF c.arg.reset THEN "list" ELSE "page",
                  PageHit(items, c.page))
  /\ UNCHANGED <<pendingOps, errorQueue, nWrites, nErr, now, srv,
                 srvUsed, nOther, filters>>

\* a rejected list request: only .finally runs, the caller sees the
\* rejection; when init awaits this request, init ends there
ListFail(c) ==
  /\ UNCHANGED asideVars
  /\ c \in calls /\ c.op = "list" /\ c.st = "err"
  /\ inflight' = inflight \ {c.arg.key}
  /\ calls' = calls \ {c}
  /\ IF initPc = "listing" /\ initKey = Some(c.arg.key)
     THEN initPc' = "failed" /\ initKey' = None
     ELSE UNCHANGED <<initPc, initKey>>
  /\ last' = Step("fail", "list", "-")
  /\ UNCHANGED <<items, cursor, pendingOps, errorQueue, connected, nWrites,
                 nErr, now, srv, srvUsed, nOther, events, filters,
                 subVars, locEvents>>

(* ---------- Store: optimistic writes ---------- *)

\* The card constructs the store and starts init in the same statement
\* (index.ts, hass setter), so the UI calls below come once init has started.
\* Responses and push events are processed one at a time; the model does
\* not fix the order in which a response and an event reach the store.

\* `${kind}:${itemId}:${Date.now()}`, given the reading of Date.now()
OpId(kind, itemId, t) == <<kind, itemId, t>>

\* the time that has passed since Date.now() was read last; the reading is
\* only compared with the readings of the operation ids still held
Elapsed == IF pendingOps = <<>> THEN {0} ELSE {dt \in {0, 1} : now + dt <= MaxNow}

\* updateItem ... moveItem up to the await; `act` and `by` name the caller
StartWrite(op, itemId, arg, ev, dt, act, by, n) ==
  /\ UNCHANGED asideVars
  /\ now' = now + dt
  /\ LET before == Find(items, itemId)
         opId   == IF op = "update" THEN Some(OpId("update", itemId, now')) ELSE None
         c      == [Request(op, itemId, arg, ev, before, opId, by) EXCEPT !.n = n]
     IN /\ pendingOps' = IF op = "update"
                         THEN MapSet(pendingOps, OpId("update", itemId, now'),
                                     [kind |-> "update", itemId |-> itemId])
                         ELSE pendingOps
        /\ items' = IF before # None
                    THEN applyOptimistic(items, Speculative(op, The(before), arg))
                    ELSE items
        /\ calls' = calls \cup {c}
        /\ last' = Step(act, op, itemId)
  /\ UNCHANGED <<cursor, inflight, connected, initPc, nErr,
                 srv, srvUsed, nOther, events>>
  /\ UNCHANGED <<filters, initKey, subVars, locEvents>>

\* the UI calls one of updateItem ... moveItem
CallWrite(op, itemId, arg, ev, dt) ==
  /\ op \in UpdateOps
  /\ initPc # "new"
  /\ nWrites < MaxCalls
  /\ dt = 0 \/ op = "update"
  /\ StartWrite(op, itemId, arg, ev, dt, "call", "ui", nWrites + 1)
  /\ nWrites' = nWrites + 1
  /\ UNCHANGED errorQueue

\* dismissError that drops the oldest entry, whatever its id
dismissError_DropOldest(q, id) == IF q = <<>> THEN q ELSE Tail(q)

\* Store.dismissError
dismissError(q, id) == SelectSeq(q, LAMBDA e : e.id # id)

\* the Re-apply button of a conflict banner: updateItem with the entry's
\* itemId and changes, then dismissError
Reapply(e, dt) ==
  /\ \E i \in 1..Len(errorQueue) : errorQueue[i] = e
  /\ e.kind = "conflict" /\ e.itemId # UNDEF /\ e.changes # None
  /\ StartWrite("update", e.itemId, The(e.changes), NoVersion, dt,
                "reapply", "reapply", e.id)
  /\ errorQueue' = dismissError(errorQueue, e.id)
  /\ UNCHANGED nWrites

\* the View latest button of a conflict banner: Store.refreshItem up to the
\* await (ws.getItem sends haventory/item/get), then dismissError
ViewLatest(e) ==
  /\ UNCHANGED asideVars
  /\ \E i \in 1..Len(errorQueue) : errorQueue[i] = e
  /\ e.kind = "conflict" /\ e.itemId # UNDEF
  /\ calls' = calls \cup
              {[Request("get", e.itemId, [item_id |-> TRUE], NoVersion, None,
                        None, "view") EXCEPT !.n = e.id]}
  /\ errorQueue' = dismissError(errorQueue, e.id)
  /\ last' = Step("view", "get", e.itemId)
  /\ UNCHANGED <<items, cursor, pendingOps, inflight, connected, initPc,
                 nWrites, nErr, now, srv, srvUsed, nOther, events,
                 filters, initKey, subVars, locEvents>>

\* a refreshItem that drops the fetched snapshot
RefreshItemOk_Drop(c) ==
  /\ UNCHANGED asideVars
  /\ c \in calls /\ c.op = "get" /\ c.st = "ok"
  /\ items' = items
  /\ calls' = calls \ {c}
  /\ last' = Step("ok", "get", c.itemId)
  /\ UNCHANGED <<cursor, pendingOps, errorQueue, inflight, connected, initPc,
                 nWrites, nErr, now, srv, srvUsed, nOther, events,
                 filters, initKey, subVars, locEvents>>

\* Store.refreshItem after the await: applyOptimistic(latest)
RefreshItemOk(c) ==
  /\ UNCHANGED asideVars
  /\ c \in calls /\ c.op = "get" /\ c.st = "ok"
  /\ items' = applyOptimistic(items, The(c.res))
  /\ calls' = calls \ {c}
  /\ last' = Step("ok", "get", c.itemId)
  /\ UNCHANGED <<cursor, pendingOps, errorQueue, inflight, connected, initPc,
                 nWrites, nErr, now, srv, srvUsed, nOther, events,
                 filters, initKey, subVars, locEvents>>

\* Store.refreshItem, the catch branch: pushError(err) without details
RefreshItemFail(c) ==
  /\ UNCHANGED asideVars
  /\ c \in calls /\ c.op = "get" /\ c.st = "err"
  /\ errorQueue' = pushError(errorQueue, nErr + 1, c.code,
                             [itemId |-> UNDEF, changes |-> None])
  /\ nErr' = nErr + 1
  /\ calls' = calls \ {c}
  /\ last' = Step("fail", "get", c.itemId)
  /\ UNCHANGED <<items, cursor, pendingOps, inflight, connected, initPc,
                 nWrites, now, srv, srvUsed, nOther, events,
                 filters, initKey, subVars, locEvents>>

\* the try branch after the await, and finally
WriteOk(c) ==
  /\ UNCHANGED asideVars
  /\ UNCHANGED <<filters, initKey, subVars, locEvents>>
  /\ c \in calls /\ c.op \in UpdateOps /\ c.st = "ok"
  /\ items' = applyOptimistic(items, The(c.res))
  /\ pendingOps' = IF c.opId # None THEN MapDelete(pendingOps, The(c.opId))
                   ELSE pendingOps
  /\ calls' = calls \ {c}
  /\ last' = Step("ok", c.op, c.itemId)
  /\ UNCHANGED <<cursor, errorQueue, inflight, connected, initPc, nWrites, nErr, now, srv, srvUsed, nOther, events>>

\* a catch branch that sends the rejected request once more
WriteFail_Resend(c) ==
  /\ UNCHANGED asideVars
  /\ UNCHANGED <<filters, initKey, subVars, locEvents>>
  /\ c \in calls /\ c.op \in UpdateOps /\ c.st = "err"
  /\ errorQueue' = pushError(errorQueue, nErr + 1, c.code,
                             ErrorDetails(c.op, c.itemId, c.arg))
  /\ nErr' = nErr + 1
  /\ items' = IF c.before # None THEN applyOptimistic(items, The(c.before))
              ELSE items
  /\ pendingOps' = pendingOps
  /\ calls' = (calls \ {c}) \cup {[c EXCEPT !.st = "sent", !.code = "-"]}
  /\ last' = Step("fail", c.op, c.itemId)
  /\ UNCHANGED <<cursor, inflight, connected, initPc, nWrites, now,
                 srv, srvUsed, nOther, events>>

\* the catch branch, and finally
WriteFail(c) ==
  /\ UNCHANGED asideVars
  /\ UNCHANGED <<filters, initKey, subVars, locEvents>>
  /\ c \in calls /\ c.op \in UpdateOps /\ c.st = "err"
  /\ errorQueue' = pushError(errorQueue, nErr + 1, c.code,
                             ErrorDetails(c.op, c.itemId, c.arg))
  /\ nErr' = nErr + 1
  /\ items' = IF c.before # None THEN applyOptimistic(items, The(c.before))
              ELSE items
  /\ pendingOps' = IF c.opId # None THEN MapDelete(pendingOps, The(c.opId))
                   ELSE pendingOps
  /\ calls' = calls \ {c}
  /\ last' = Step("fail", c.op, c.itemId)
  /\ UNCHANGED <<cursor, inflight, connected, initPc, nWrites, now,
                 srv, srvUsed, nOther, events>>

\* deleteItem up to the await
CallDelete(itemId, ev, dt) ==
  /\ UNCHANGED asideVars
  /\ UNCHANGED <<filters, initKey, subVars, locEvents>>
  /\ initPc # "new"
  /\ nWrites < MaxCalls
  /\ now' = now + dt
  /\ LET before == Find(items, itemId)
         c == Request("delete", itemId, [item_id |-> TRUE], ev, before,
                      Some(OpId("delete", itemId, now')), "ui")
     IN /\ pendingOps' = MapSet(pendingOps, OpId("delete", itemId, now'),
                                [kind |-> "delete", itemId |-> itemId])
        /\ items' = IF before # None THEN removeById(items, itemId) ELSE items
        /\ calls' = calls \cup {c}
        /\ last' = Step("call", "delete", itemId)
  /\ nWrites' = nWrites + 1
  /\ UNCHANGED <<cursor, errorQueue, inflight, connected, initPc, nErr,
                 srv, srvUsed, nOther, events>>

DeleteOk(c) ==
  /\ UNCHANGED asideVars
  /\ UNCHANGED <<filters, initKey, subVars, locEvents>>
  /\ c \in calls /\ c.op = "delete" /\ c.st = "ok"
  /\ pendingOps' = MapDelete(pendingOps, The(c.opId))
  /\ calls' = calls \ {c}
  /\ last' = Step("ok", "delete", c.itemId)
  /\ UNCHANGED <<items, cursor, errorQueue, inflight, connected, initPc,
                 nWrites, nErr, now, srv, srvUsed, nOther, events>>

DeleteFail(c) ==
  /\ UNCHANGED asideVars
  /\ UNCHANGED <<filters, initKey, subVars, locEvents>>
  /\ c \in calls /\ c.op = "delete" /\ c.st = "err"
  /\ errorQueue' = pushError(errorQueue, nErr + 1, c.code,
                             ErrorDetails("delete", c.itemId, c.arg))
  /\ nErr' = nErr + 1
  /\ items' = IF c.before # None THEN applyOptimistic(items, The(c.before))
              ELSE items
  /\ pendingOps' = MapDelete(pendingOps, The(c.opId))
  /\ calls' = calls \ {c}
  /\ last' = Step("fail", "delete", c.itemId)
  /\ UNCHANGED <<cursor, inflight, connected, initPc, nWrites, now,
                 srv, srvUsed, nOther, events>>

\* createItem up to the await
CallCreate(input, dt) ==
  /\ UNCHANGED asideVars
  /\ UNCHANGED <<filters, initKey, subVars, locEvents>>
  /\ initPc # "new"
  /\ nWrites < MaxCalls
  /\ now' = now + dt
  /\ LET c == Request("create", "-", input, NoVersion, None,
                      Some(OpId("create", "-", now')), "ui")
     IN /\ pendingOps' = MapSet(pendingOps, OpId("create", "-", now'),
                                [kind |-> "create", itemId |-> UNDEF])
        /\ calls' = calls \cup {c}
        /\ last' = Step("call", "create", "-")
  /\ nWrites' = nWrites + 1
  /\ UNCHANGED <<items, cursor, errorQueue, inflight, connected, initPc, nErr,
                 srv, srvUsed, nOther, events>>

CreateOk(c) ==
  /\ UNCHANGED asideVars
  /\ UNCHANGED <<filters, initKey, subVars, locEvents>>
  /\ c \in calls /\ c.op = "create" /\ c.st = "ok"
  /\ items' = mergeUniqueById(items, <<The(c.res)>>)
  /\ pendingOps' = MapDelete(pendingOps, The(c.opId))
  /\ calls' = calls \ {c}
  /\ last' = Step("ok", "create", The(c.res).id)
  /\ UNCHANGED <<cursor, errorQueue, inflight, connected, initPc, nWrites, nErr, now, srv, srvUsed, nOther, events>>

CreateFail(c) ==
  /\ UNCHANGED asideVars
  /\ UNCHANGED <<filters, initKey, subVars, locEvents>>
  /\ c \in calls /\ c.op = "create" /\ c.st = "err"
  /\ errorQueue' = pushError(errorQueue, nErr + 1, c.code,
                             [itemId |-> UNDEF, changes |-> None])
  /\ nErr' = nErr + 1
  /\ pendingOps' = MapDelete(pendingOps, The(c.opId))
  /\ calls' = calls \ {c}
  /\ last' = Step("fail", "create", "-")
  /\ UNCHANGED <<items, cursor, inflight, connected, initPc, nWrites,
                 now, srv, srvUsed, nOther, events>>

\* the items subscription callback runs on the oldest undelivered event
DeliverEvent ==
  /\ UNCHANGED asideVars
  /\ UNCHANGED <<filters, initKey, subVars, locEvents>>
  /\ events # <<>>
  /\ items' = onItemsEvent(items, Head(events))
  /\ events' = Tail(events)
  /\ last' = Step("event", Head(events).action, Head(events).item.id)
  /\ UNCHANGED <<cursor, pendingOps, errorQueue, inflight, connected, initPc,
                 calls, nWrites, nErr, now, srv, srvUsed, nOther>>


\* Store.onLocationsEvent on the oldest undelivered locations event:
\* Promise.all of refreshLocationsFlat and refreshLocationTree, not awaited
LocationsEvent ==
  /\ UNCHANGED asideVars
  /\ locEvents # <<>>
  /\ locEvents' = Tail(locEvents)
  /\ calls' = calls \cup
              {[Request("refresh", "-", [item_id |-> FALSE], NoVersion, None,
                        None, "locations") EXCEPT !.n = Head(locEvents).n]}
  /\ last' = Step("event", "locations", "-")
  /\ UNCHANGED <<items, cursor, pendingOps, errorQueue, inflight, connected,
                 initPc, nWrites, nErr, now, srv, srvUsed, nOther, events,
                 filters, initKey, subVars>>


(* ---------- the backend handles requests ---------- *)

Answer(c, st, res, code) == [c EXCEPT !.st = st, !.res = res, !.code = code]

\* haventory/item/list
ServeList(c) ==
  /\ UNCHANGED asideVars
  /\ UNCHANGED <<filters, initKey, subVars, locEvents>>
  /\ c \in calls /\ c.op = "list" /\ c.st = "sent"
  /\ calls' = (calls \ {c}) \cup
              {[c EXCEPT !.st = "ok", !.page = SrvPage(srv, c.arg.key),
                         !.next = SrvNextCursor(srv, c.arg.key)]}
  /\ UNCHANGED <<items, cursor, pendingOps, errorQueue, inflight, connected,
                 initPc, nWrites, nErr, now, srv, srvUsed, nOther,
                 events, last>>

\* haventory/stats, haventory/areas/list, haventory/location/tree and
\* haventory/location/list
ServeRefresh(c) ==
  /\ UNCHANGED asideVars
  /\ c \in calls /\ c.op \in RefreshOps /\ c.st = "sent"
  /\ calls' = (calls \ {c}) \cup {Answer(c, "ok", None, "-")}
  /\ UNCHANGED <<items, cursor, pendingOps, errorQueue, inflight, connected,
                 initPc, nWrites, nErr, now, srv, srvUsed, nOther,
                 events, last, filters, initKey, subVars, locEvents>>

\* haventory/item/get
ServeGet(c) ==
  /\ c \in calls /\ c.op = "get" /\ c.st = "sent"
  /\ calls' = (calls \ {c}) \cup
              {IF srv[c.itemId] = None
               THEN Answer(c, "err", None, "not_found")
               ELSE Answer(c, "ok", srv[c.itemId], "-")}
  /\ UNCHANGED <<items, cursor, pendingOps, errorQueue, inflight, connected,
                 initPc, nWrites, nErr, now, srv, srvUsed, nOther,
                 events, last, filters, initKey, subVars, locEvents, asideVars>>

\* haventory/item/update ... move and haventory/item/delete
ServeWrite(c) ==
  /\ UNCHANGED asideVars
  /\ UNCHANGED <<filters, initKey, subVars, locEvents>>
  /\ c \in calls /\ c.op \in UpdateOps \cup {"delete"} /\ c.st = "sent"
  /\ LET cur  == srv[c.itemId]
         code == SrvError(c.op, cur, c.arg, c.ev)
         new  == SrvApply(c.op, The(cur), c.arg)
     IN IF code # "-"
        THEN /\ calls' = (calls \ {c}) \cup {Answer(c, "err", None, code)}
             /\ UNCHANGED <<srv, events>>
        ELSE /\ srv' = [srv EXCEPT ![c.itemId] =
                          IF c.op = "delete" THEN None ELSE Some(new)]
             /\ calls' = (calls \ {c}) \cup
                         {Answer(c, "ok", IF c.op = "delete" THEN None ELSE Some(new), "-")}
             /\ events' = Emit(events, SrvMatching(subs, new),
                               ItemsEvent(SrvEventAction(c.op, The(cur), new), new))
  /\ UNCHANGED <<items, cursor, pendingOps, errorQueue, inflight, connected,
                 initPc, nWrites, nErr, now, srvUsed, nOther, last>>

\* haventory/item/create
ServeCreate(c) ==
  /\ UNCHANGED asideVars
  /\ UNCHANGED <<filters, initKey, subVars, locEvents>>
  /\ c \in calls /\ c.op = "create" /\ c.st = "sent"
  /\ IF c.arg.name = ""
     THEN /\ calls' = (calls \ {c}) \cup {Answer(c, "err", None, "validation_error")}
          /\ UNCHANGED <<srv, srvUsed, events>>
     ELSE \E id \in NewIds \ srvUsed :
          /\ srv' = [srv EXCEPT ![id] = Some(SrvCreate(id, c.arg))]
          /\ srvUsed' = srvUsed \cup {id}
          /\ calls' = (calls \ {c}) \cup {Answer(c, "ok", Some(SrvCreate(id, c.arg)), "-")}
          /\ events' = Emit(events, SrvMatching(subs, SrvCreate(id, c.arg)),
                            ItemsEvent("created", SrvCreate(id, c.arg)))
  /\ UNCHANGED <<items, cursor, pendingOps, errorQueue, inflight, connected,
                 initPc, nWrites, nErr, now, nOther, last>>

\* a request fails without being handled: the connection drops, the handler
\* raises, the result is lost
RequestLost(c, code) ==
  /\ UNCHANGED asideVars
  /\ UNCHANGED <<filters, initKey, subVars, locEvents>>
  /\ c \in calls /\ c.st = "sent"
  /\ calls' = (calls \ {c}) \cup {Answer(c, "err", None, code)}
  /\ UNCHANGED <<items, cursor, pendingOps, errorQueue, inflight, connected,
                 initPc, nWrites, nErr, now, srv, srvUsed, nOther,
                 events, last>>

\* another client's command on an existing item
OtherWrite(op, id, arg) ==
  /\ UNCHANGED asideVars
  /\ UNCHANGED <<filters, initKey, subVars, locEvents>>
  /\ initPc # "new"
  /\ nOther < MaxOther
  /\ SrvError(op, srv[id], arg, NoVersion) = "-"
  /\ LET new == SrvApply(op, The(srv[id]), arg)
     IN /\ srv' = [srv EXCEPT ![id] = IF op = "delete" THEN None ELSE Some(new)]
        /\ events' = Emit(events, SrvMatching(subs, new),
                          ItemsEvent(SrvEventAction(op, The(srv[id]), new), new))
  /\ nOther' = nOther + 1
  /\ UNCHANGED <<items, cursor, pendingOps, errorQueue, inflight, connected,
                 initPc, calls, nWrites, nErr, now, srvUsed, last>>

\* another client creates an item
OtherCreate(input) ==
  /\ UNCHANGED asideVars
  /\ UNCHANGED <<filters, initKey, subVars, locEvents>>
  /\ initPc # "new"
  /\ nOther < MaxOther
  /\ input.name # ""
  /\ \E id \in NewIds \ srvUsed :
       /\ srv' = [srv EXCEPT ![id] = Some(SrvCreate(id, input))]
       /\ srvUsed' = srvUsed \cup {id}
       /\ events' = Emit(events, SrvMatching(subs, SrvCreate(id, input)),
                         ItemsEvent("created", SrvCreate(id, input)))
  /\ nOther' = nOther + 1
  /\ UNCHANGED <<items, cursor, pendingOps, errorQueue, inflight, connected,
                 initPc, calls, nWrites, nErr, now, last>>

\* another client creates, renames, moves or deletes a location: one
\* locations event for each locations subscription of this connection
OtherLocation ==
  /\ UNCHANGED asideVars
  /\ initPc # "new"
  /\ nOther < MaxOther
  /\ nOther' = nOther + 1
  /\ locEvents' = EmitLocations(locEvents,
                                {s \in subs : s.topic = "locations"}, nOther + 1)
  /\ UNCHANGED <<items, cursor, pendingOps, errorQueue, inflight, connected,
                 initPc, calls, nWrites, nErr, now, srv, srvUsed, events,
                 last, filters, initKey, subVars>>

(* ---------- specification ---------- *)

Next ==
  \/ InitStart
  \/ \E c \in calls : RefreshOk(c)
  \/ \E c \in calls : RefreshFail(c)
  \/ \E patch \in FilterPatches : SetFilters(patch)
  \/ \E r \in {69, 70} : Prefetch(r)
  \/ \E c \in calls : ListOk(c)
  \/ \E c \in calls : ListFail(c)
  \/ \E op \in UpdateOps, dt \in Elapsed : \E id \in WriteTargets(op) :
       \E arg \in Args(op), ev \in ExpectedVersions(op) : CallWrite(op, id, arg, ev, dt)
  \/ \E dt \in Elapsed : \E i \in 1..Len(errorQueue) : Reapply(errorQueue[i], dt)
  \/ \E i \in 1..Len(errorQueue) : ViewLatest(errorQueue[i])
  \/ \E c \in calls : RefreshItemOk(c)
  \/ \E c \in calls : RefreshItemFail(c)
  \/ \E c \in calls : WriteOk(c)
  \/ \E c \in calls : WriteFail(c)
  \/ \E id \in WriteTargets("delete"), ev \in ExpectedVersions("delete"), dt \in Elapsed :
       CallDelete(id, ev, dt)
  \/ \E c \in calls : DeleteOk(c)
  \/ \E c \in calls : DeleteFail(c)
  \/ \E input \in CreateInputs, dt \in Elapsed : CallCreate(input, dt)
  \/ \E c \in calls : CreateOk(c)
  \/ \E c \in calls : CreateFail(c)
  \/ DeliverEvent
  \/ LocationsEvent
  \/ \E c \in calls : ServeList(c)
  \/ \E c \in calls : ServeRefresh(c)
  \/ \E c \in calls : ServeGet(c)
  \/ \E c \in calls : ServeWrite(c)
  \/ \E c \in calls : ServeCreate(c)
  \/ \E c \in calls, code \in LostCodes : RequestLost(c, code)
  \/ \E op \in OtherOps, id \in OtherTargets : \E arg \in Args(op) : OtherWrite(op, id, arg)
  \/ \E input \in CreateInputs : OtherCreate(input)
  \/ OtherLocation

Spec == Init /\ [][Next]_vars

(* ---------- listing, filters and subscriptions on their own ---------- *)

MaxListCalls == 2    \* calls of prefetchIfNeeded and setFilters by the UI

\* the filter changes the UI makes, the way back included
ListPatches == FilterPatches \cup {[locationId |-> NULL]}

ListPrefetch(ratio) ==
  /\ initPc # "new"
  /\ nWrites < MaxListCalls
  /\ nWrites' = nWrites + 1
  /\ prefetchIfNeeded(ratio)

ListSetFilters(patch) ==
  /\ initPc # "new"
  /\ nWrites < MaxListCalls
  /\ nWrites' = nWrites + 1
  /\ setFilters(patch)

NextList ==
  \/ InitStart
  \/ \E c \in calls : RefreshOk(c)
  \/ \E c \in calls : RefreshFail(c)
  \/ \E patch \in ListPatches : ListSetFilters(patch)
  \/ \E r \in {69, 70} : ListPrefetch(r)
  \/ \E c \in calls : ListOk(c)
  \/ \E c \in calls : ListFail(c)
  \/ DeliverEvent
  \/ \E c \in calls : ServeList(c)
  \/ \E c \in calls : ServeRefresh(c)
  \/ \E c \in calls, code \in LostCodes : RequestLost(c, code)
  \/ \E op \in OtherOps, id \in OtherTargets : \E arg \in Args(op) : OtherWrite(op, id, arg)
  \/ \E input \in CreateInputs : OtherCreate(input)

SpecList == Init /\ [][NextList]_vars


(* ---------- vocabulary of the properties ---------- *)

(* ---------- subscriptions and the event router, on their own ---------- *)

\* where another client moves an item: a top-level location and one below it
MoveTargets == {"L1", "L2"}

\* haventory/item/move sent by another client
OtherMove(id, loc) == OtherWrite("move", id, [location_id |-> loc])

NextRouter ==
  \/ InitStart
  \/ \E c \in calls : RefreshOk(c)
  \/ \E patch \in FilterPatches : ListSetFilters(patch)
  \/ \E c \in calls : ListOk(c)
  \/ DeliverEvent
  \/ \E c \in calls : ServeList(c)
  \/ \E c \in calls : ServeRefresh(c)
  \/ \E id \in OtherTargets, loc \in MoveTargets : OtherMove(id, loc)

SpecRouter == Init /\ [][NextRouter]_vars

(* ---------- backend: bulk batches, on their own ---------- *)

MaxBatch == 5    \* operations in one haventory/items/bulk batch

\* the operations a batch is made of: one that is always accepted, one that
\* is invalid, one that is accepted once (its expected version is then
\* stale) and a delete
BulkOps ==
  {[op |-> "adjust_quantity", itemId |-> "i1", arg |-> [delta |-> 1], ev |-> NoVersion],
   [op |-> "set_quantity", itemId |-> "i1", arg |-> [quantity |-> -1], ev |-> NoVersion],
   [op |-> "update", itemId |-> "i2", arg |-> [name |-> "B", quantity |-> 3], ev |-> 1],
   [op |-> "delete", itemId |-> "i2", arg |-> [item_id |-> TRUE], ev |-> NoVersion]}

\* the batches: operation ids are the positions
Batches == UNION {[1..n -> BulkOps] : n \in 0..MaxBatch}

\* a bulk executor that stops at the first failing operation
RECURSIVE BulkRun_AbortOnFailure(_, _, _)
BulkRun_AbortOnFailure(ops, i, r) ==
  IF i > Len(ops) THEN r
  ELSE LET o    == ops[i]
           cur  == r.srv[o.itemId]
           code == SrvError(o.op, cur, o.arg, o.ev)
           new  == SrvApply(o.op, The(cur), o.arg)
       IN IF code # "-"
          THEN [r EXCEPT !.results = Append(@, [success |-> FALSE, code |-> code])]
          ELSE BulkRun_AbortOnFailure(ops, i + 1,
                 [srv     |-> [r.srv EXCEPT ![o.itemId] =
                                 IF o.op = "delete" THEN None ELSE Some(new)],
                  results |-> Append(r.results, [success |-> TRUE, result |-> new]),
                  events  |-> Emit(r.events, SrvMatching(subs, new),
                                   ItemsEvent(SrvEventAction(o.op, The(cur), new), new)),
                  changed |-> TRUE])

\* the bulk executor from operation i on: each operation runs against what
\* the ones before it left, its outcome is recorded under its id, a failure
\* changes nothing and the next operation runs
RECURSIVE BulkRun(_, _, _)
BulkRun(ops, i, r) ==
  IF i > Len(ops) THEN r
  ELSE LET o    == ops[i]
           cur  == r.srv[o.itemId]
           code == SrvError(o.op, cur, o.arg, o.ev)
           new  == SrvApply(o.op, The(cur), o.arg)
       IN IF code # "-"
          THEN BulkRun(ops, i + 1,
                 [r EXCEPT !.results = Append(@, [success |-> FALSE, code |-> code])])
          ELSE BulkRun(ops, i + 1,
                 [srv     |-> [r.srv EXCEPT ![o.itemId] =
                                 IF o.op = "delete" THEN None ELSE Some(new)],
                  results |-> Append(r.results, [success |-> TRUE, result |-> new]),
                  events  |-> Emit(r.events, SrvMatching(subs, new),
                                   ItemsEvent(SrvEventAction(o.op, The(cur), new), new)),
                  changed |-> TRUE])

\* haventory/items/bulk, sent by a client of the backend: after the batch
\* one stats/counts notification goes out if something changed
Bulk(ops) ==
  /\ bulk = None
  /\ LET r == BulkRun(ops, 1, [srv |-> srv, results |-> <<>>,
                               events |-> events, changed |-> FALSE])
     IN /\ srv' = r.srv
        /\ events' = r.events
        /\ bulk' = Some([ops |-> ops, results |-> r.results,
                         stats |-> IF r.changed THEN 1 ELSE 0])
  /\ UNCHANGED <<items, cursor, pendingOps, errorQueue, inflight, connected,
                 initPc, calls, nWrites, nErr, now, srvUsed, nOther, last,
                 filters, initKey, subVars, locEvents, debounceVars,
                 dialogVars, cardVars>>

NextBulk == \E ops \in Batches : Bulk(ops)

SpecBulk == Init /\ [][NextBulk]_vars


(* ---------- utils/debounce.ts, on its own ---------- *)

MaxDebounceCalls == 3   \* calls of the debounced function
MaxClock == 6           \* how far the clock runs

\* the delay `ms` passed to debounce, in units of the clock
DebounceMs == 2

\* the arguments the debounced function is called with
DebounceArgs == {"a", "b"}

\* the debounced function without the clearTimeout
debounced_NoClear(a) ==
  /\ Len(debCalls) < MaxDebounceCalls
  /\ timers' = timers \cup
               {[id |-> nextTimer, due |-> clock + DebounceMs, args |-> a]}
  /\ timeoutId' = nextTimer
  /\ nextTimer' = nextTimer + 1
  /\ debCalls' = Append(debCalls, [at |-> clock, args |-> a])
  /\ UNCHANGED <<clock, fnRuns, bulk, dialogVars, cardVars, coreVars>>

\* the function debounce returns, called with the argument a: the timeout
\* it holds is cleared (a no-op when that one has run) and a new one is set
debounced(a) ==
  /\ Len(debCalls) < MaxDebounceCalls
  /\ timers' = {t \in timers : timeoutId = 0 \/ t.id # timeoutId} \cup
               {[id |-> nextTimer, due |-> clock + DebounceMs, args |-> a]}
  /\ timeoutId' = nextTimer
  /\ nextTimer' = nextTimer + 1
  /\ debCalls' = Append(debCalls, [at |-> clock, args |-> a])
  /\ UNCHANGED <<clock, fnRuns, bulk, dialogVars, cardVars, coreVars>>

\* window runs the callback of a timeout whose delay has elapsed:
\* () => fn(...args), with the args of the call that set it
TimeoutRuns(t) ==
  /\ t \in timers
  /\ clock >= t.due
  /\ timers' = timers \ {t}
  /\ fnRuns' = Append(fnRuns, [at |-> clock, args |-> t.args, n |-> Len(debCalls)])
  /\ UNCHANGED <<timeoutId, nextTimer, clock, debCalls, bulk, dialogVars, cardVars, coreVars>>

\* time passes; a timeout that is due runs before more time passes
Tick ==
  /\ clock < MaxClock
  /\ \A t \in timers : clock < t.due
  /\ clock' = clock + 1
  /\ UNCHANGED <<timeoutId, timers, nextTimer, debCalls, fnRuns, bulk, dialogVars, cardVars, coreVars>>

NextDebounce ==
  \/ \E a \in DebounceArgs : debounced(a)
  \/ \E t \in timers : TimeoutRuns(t)
  \/ Tick

SpecDebounce == Init /\ [][NextDebounce]_vars


(* ---------- components/hv-item-dialog.ts, on its own ---------- *)

\* Numbers of the dialog are counted in halves, so that 1.5 has a value:
\* 2 is the number 1, 3 is 1.5, and a whole number is an even count.

MaxPresses == 1        \* calls of onSave
MaxDialogQuantity == 3 \* how far the + button of the quantity goes

\* what is typed into the fields
NameTexts == {"", " ", " Box"}
NumberTexts == {"", "2", "1.5", "-5"}
DueTexts == {"", "d1"}

\* String.prototype.trim on the texts above
Trim(t) == CASE t = " " -> "" [] t = " Box" -> "Box" [] OTHER -> t

\* Number(text) on the texts above, in halves
NumberOf(t) ==
  CASE t = "" -> 0 [] t = "2" -> 4 [] t = "1.5" -> 3 [] t = "-5" -> -10

\* Math.max(0, x)
Max0(x) == IF x < 0 THEN 0 ELSE x

\* Math.round(x), in halves: the nearest whole number, a half goes up
Round(x) == ((x + 1) \div 2) * 2

\* the @input handlers of the fields and the buttons
InputName(t) ==
  /\ _name' = t
  /\ UNCHANGED <<_quantity, _lowStock, _checkedOut, _dueDate, _validation,
                 saved, presses, dlgItem, bulk, debounceVars, cardVars, coreVars>>

InputQuantity(t) ==
  /\ _quantity' = Max0(NumberOf(t))
  /\ UNCHANGED <<_name, _lowStock, _checkedOut, _dueDate, _validation,
                 saved, presses, dlgItem, bulk, debounceVars, cardVars, coreVars>>

InputLowStock(t) ==
  /\ _lowStock' = IF t = "" THEN NoLowStock ELSE Max0(NumberOf(t))
  /\ UNCHANGED <<_name, _quantity, _checkedOut, _dueDate, _validation,
                 saved, presses, dlgItem, bulk, debounceVars, cardVars, coreVars>>

adjustQuantity(delta) ==
  /\ _quantity + 2 * delta <= 2 * MaxDialogQuantity
  /\ _quantity' = Max0(Round(_quantity + 2 * delta))
  /\ UNCHANGED <<_name, _lowStock, _checkedOut, _dueDate, _validation,
                 saved, presses, dlgItem, bulk, debounceVars, cardVars, coreVars>>

toggleCheckedOut ==
  /\ _checkedOut' = ~_checkedOut
  /\ UNCHANGED <<_name, _quantity, _lowStock, _dueDate, _validation,
                 saved, presses, dlgItem, bulk, debounceVars, cardVars, coreVars>>

InputDueDate(t) ==
  /\ _dueDate' = t
  /\ UNCHANGED <<_name, _quantity, _lowStock, _checkedOut, _validation,
                 saved, presses, dlgItem, bulk, debounceVars, cardVars, coreVars>>

\* the detail of the save event, as far as the model follows the fields
SaveDetail ==
  [name |-> Trim(_name), quantity |-> _quantity,
   low_stock_threshold |-> _lowStock, checked_out |-> _checkedOut,
   due_date |-> IF _checkedOut
                THEN (IF _dueDate = "" THEN NULL ELSE _dueDate)
                ELSE NULL]

\* HVItemDialog.onSave; a count of halves is never NaN and always a number
onSave ==
  /\ presses < MaxPresses
  /\ presses' = presses + 1
  /\ IF Trim(_name) = ""
     THEN _validation' = "Name is required." /\ saved' = None
     ELSE IF _quantity < 0
     THEN _validation' = "Quantity must be an integer >= 0." /\ saved' = None
     ELSE IF _lowStock # NoLowStock /\ _lowStock < 0
     THEN /\ _validation' = "Low-stock threshold must be >= 0 or empty."
          /\ saved' = None
     ELSE _validation' = NULL /\ saved' = Some(SaveDetail)
  /\ UNCHANGED <<_name, _quantity, _lowStock, _checkedOut, _dueDate,
                 dlgItem, bulk, debounceVars, cardVars, coreVars>>

NextDialog ==
  \/ \E t \in NameTexts : InputName(t)
  \/ \E t \in NumberTexts : InputQuantity(t)
  \/ \E t \in NumberTexts : InputLowStock(t)
  \/ \E d \in {-1, 1} : adjustQuantity(d)
  \/ toggleCheckedOut
  \/ \E t \in DueTexts : InputDueDate(t)
  \/ onSave

SpecDialog == Init /\ [][NextDialog]_vars


(* ---------- writes of the card that overlap, on their own ---------- *)

MaxOverlap == 2    \* writes the UI calls, one after the other

\* the overlapping writes: updateItem, adjustQuantity and setQuantity
OverlapOps == {"update", "adjust_quantity", "set_quantity"}

\* the UI calls a write while earlier ones may still be outstanding
OverlapWrite(op, itemId, arg, ev, dt) ==
  /\ initPc # "new"
  /\ nWrites < MaxOverlap
  /\ dt = 0 \/ op = "update"
  /\ StartWrite(op, itemId, arg, ev, dt, "call", "ui", nWrites + 1)
  /\ nWrites' = nWrites + 1
  /\ UNCHANGED errorQueue

NextOverlap ==
  \/ InitStart
  \/ \E c \in calls : RefreshOk(c)
  \/ \E c \in calls : ListOk(c)
  \/ \E op \in OverlapOps, dt \in Elapsed :
       \E arg \in Args(op), ev \in ExpectedVersions(op) :
         OverlapWrite(op, "i2", arg, ev, dt)
  \/ \E c \in calls : WriteOk(c)
  \/ \E c \in calls : WriteFail(c)
  \/ DeliverEvent
  \/ \E c \in calls : ServeList(c)
  \/ \E c \in calls : ServeRefresh(c)
  \/ \E c \in calls : ServeWrite(c)
  \/ \E c \in calls, code \in LostCodes : c.op \in UpdateOps /\ RequestLost(c, code)

SpecOverlap == Init /\ [][NextOverlap]_vars


(* ---------- the card edits an item through the dialog ---------- *)

\* the @edit handler of the list: the dialog gets the cached item
EditItem(id) ==
  /\ initPc # "new"
  /\ Find(items, id) # None
  /\ dlgItem' = Find(items, id)
  /\ UNCHANGED <<_name, _quantity, _lowStock, _checkedOut, _dueDate,
                 _validation, saved, presses, bulk, debounceVars, cardVars, coreVars>>

\* the @save handler of the dialog, update flow: updateItem with the id of
\* the dialog's item and the detail of the event, no third argument
SaveEdit(data, dt) ==
  /\ dlgItem # None
  /\ nWrites < MaxCalls
  /\ StartWrite("update", The(dlgItem).id, data, NoVersion, dt, "save",
                "dialog", nWrites + 1)
  /\ nWrites' = nWrites + 1
  /\ UNCHANGED errorQueue

NextSave ==
  \/ InitStart
  \/ \E c \in calls : RefreshOk(c)
  \/ \E c \in calls : ListOk(c)
  \/ EditItem("i2")
  \/ \E data \in Args("update"), dt \in Elapsed : SaveEdit(data, dt)
  \/ \E c \in calls : WriteOk(c)
  \/ \E c \in calls : WriteFail(c)
  \/ DeliverEvent
  \/ \E c \in calls : ServeList(c)
  \/ \E c \in calls : ServeRefresh(c)
  \/ \E c \in calls : ServeWrite(c)
  \/ \E op \in OtherOps, id \in OtherTargets : \E arg \in Args(op) : OtherWrite(op, id, arg)

SpecSave == Init /\ [][NextSave]_vars


(* ---------- the error queue and its banners, on their own ---------- *)

MaxErrors == 3    \* writes the UI calls, each of which may fail

\* the Dismiss button of a banner, or any other caller of dismissError; the
\* id may be one the queue no longer holds
DismissError(id) ==
  /\ UNCHANGED asideVars
  /\ errorQueue' = dismissError(errorQueue, id)
  /\ last' = [act |-> "dismiss", op |-> "-", itemId |-> "-", cached |-> FALSE,
              id |-> id,
              found |-> \E i \in 1..Len(errorQueue) : errorQueue[i].id = id]
  /\ UNCHANGED <<items, cursor, pendingOps, inflight, connected, initPc,
                 calls, nWrites, nErr, now, srv, srvUsed, nOther, events,
                 filters, initKey, subVars, locEvents>>

\* the UI changes a quantity with the buttons of a row
ErrorsWrite(arg) ==
  /\ initPc # "new"
  /\ nWrites < MaxErrors
  /\ StartWrite("adjust_quantity", "i2", arg, NoVersion, 0, "call", "ui",
                nWrites + 1)
  /\ nWrites' = nWrites + 1
  /\ UNCHANGED errorQueue

NextErrors ==
  \/ InitStart
  \/ \E c \in calls : RefreshOk(c)
  \/ \E c \in calls : ListOk(c)
  \/ \E arg \in Args("adjust_quantity") : ErrorsWrite(arg)
  \/ \E c \in calls : WriteOk(c)
  \/ \E c \in calls : WriteFail(c)
  \/ \E id \in 1..MaxErrors : DismissError(id)
  \/ \E c \in calls : ServeList(c)
  \/ \E c \in calls : ServeRefresh(c)
  \/ \E c \in calls : ServeWrite(c)

SpecErrors == Init /\ [][NextErrors]_vars


(* ---------- index.ts: the card, its store and its listener ---------- *)

MaxHassSets == 4     \* times Home Assistant sets the hass property
MaxCallbacks == 5    \* connect and disconnect callbacks of the element

\* Observable.onChange: the listener is added, the function returned
\* removes that listener
onChange(ls, l) == ls \cup {l}

\* the function onChange returned for listener l
Unsub(ls, l) == ls \ {l}

\* set hass(h): with a connection and no store yet, the card creates the
\* store, registers its listener and starts init
SetHass(h) ==
  /\ nHassSets < MaxHassSets
  /\ nHassSets' = nHassSets + 1
  /\ _hass' = h
  /\ IF h /\ ~cardStore
     THEN /\ cardStore' = TRUE
          /\ nStores' = nStores + 1
          /\ listeners' = onChange(listeners, nextListener)
          /\ _storeUnsub' = nextListener
          /\ nextListener' = nextListener + 1
          /\ nInits' = nInits + 1
     ELSE UNCHANGED <<cardStore, nStores, listeners, _storeUnsub,
                      nextListener, nInits>>
  /\ UNCHANGED <<nCallbacks, bulk, debounceVars, dialogVars, coreVars>>

\* connectedCallback that registers a listener whenever there is a store
connectedCallback_Always ==
  /\ nCallbacks < MaxCallbacks
  /\ nCallbacks' = nCallbacks + 1
  /\ IF cardStore
     THEN /\ listeners' = onChange(listeners, nextListener)
          /\ _storeUnsub' = nextListener
          /\ nextListener' = nextListener + 1
     ELSE UNCHANGED <<listeners, _storeUnsub, nextListener>>
  /\ UNCHANGED <<_hass, cardStore, nStores, nInits, nHassSets, bulk,
                 debounceVars, dialogVars, coreVars>>

\* HAventoryCard.connectedCallback
connectedCallback ==
  /\ nCallbacks < MaxCallbacks
  /\ nCallbacks' = nCallbacks + 1
  /\ IF cardStore /\ _storeUnsub = 0
     THEN /\ listeners' = onChange(listeners, nextListener)
          /\ _storeUnsub' = nextListener
          /\ nextListener' = nextListener + 1
     ELSE UNCHANGED <<listeners, _storeUnsub, nextListener>>
  /\ UNCHANGED <<_hass, cardStore, nStores, nInits, nHassSets, bulk,
                 debounceVars, dialogVars, coreVars>>

\* HAventoryCard.disconnectedCallback
disconnectedCallback ==
  /\ nCallbacks < MaxCallbacks
  /\ nCallbacks' = nCallbacks + 1
  /\ IF _storeUnsub # 0
     THEN /\ listeners' = Unsub(listeners, _storeUnsub)
          /\ _storeUnsub' = 0
     ELSE UNCHANGED <<listeners, _storeUnsub>>
  /\ UNCHANGED <<_hass, cardStore, nextListener, nStores, nInits, nHassSets,
                 bulk, debounceVars, dialogVars, coreVars>>

\* Home Assistant sets hass on every state change; the element is
\* connected and disconnected as the dashboard shows and hides it
NextCard ==
  \/ \E h \in BOOLEAN : SetHass(h)
  \/ connectedCallback
  \/ disconnectedCallback

SpecCard == Init /\ [][NextCard]_vars


\* the number of entries a list holds for an id
Count(its, id) == Cardinality({i \in 1..Len(its) : its[i].id = id})

\* the entry a list holds for an id (when it holds one)
Entry(its, id) == its[FindIndex(its, id)]

\* the entries for the other ids, in list order
Others(its, id) == SelectSeq(its, LAMBDA x : x.id # id)

\* the ids in list order
IdsOf(its) == [i \in 1..Len(its) |-> its[i].id]

\* request c is issued by this step
Issued(c) == c \in calls' /\ c \notin calls /\ c.st = "sent"

\* the result of request c is processed by this step
Completed(c, st) == c \in calls /\ c \notin calls' /\ c.st = st

\* the field changes a write asks for, given the snapshot it starts from
RequestedChanges(op, snap, arg) ==
  CASE op = "update"          -> arg
    [] op = "adjust_quantity" -> [quantity |-> snap.quantity + arg.delta]
    [] op = "set_quantity"    -> [quantity |-> arg.quantity]
    [] op = "check_out"       -> IF arg.due_date = NULL
                                 THEN [checked_out |-> TRUE]
                                 ELSE [checked_out |-> TRUE, due_date |-> arg.due_date]
    [] op = "check_in"        -> [checked_out |-> FALSE]
    [] op = "set_low_stock_threshold" ->
                                 [low_stock_threshold |-> arg.low_stock_threshold]
    [] op = "move"            -> [location_id |-> arg.location_id]

\* entry e is snap with exactly the field changes ch
IsPatched(e, snap, ch) ==
  /\ DOMAIN e = ItemFields
  /\ \A f \in ItemFields : e[f] = IF f \in DOMAIN ch THEN ch[f] ELSE snap[f]

(* ---------- C1 ---------- *)

C2_RollbackRestoresSnapshot ==
  [][\A c \in calls :
       (Completed(c, "err") /\ c.op \in UpdateOps /\ c.before # None) =>
         /\ Count(items', c.itemId) = 1
         /\ Entry(items', c.itemId) = The(c.before)
         /\ Others(items', c.itemId) = Others(items, c.itemId)
         /\ IdsOf(items') = IdsOf(items)]_vars

(* ---------- C3 ---------- *)

\* C3: when the request of a write that returns a snapshot (an update-type
\* write or a create) succeeds, the state after the response is processed
\* holds exactly one entry for the item and it is the returned snapshot,
\* version included.
C3_ReconciledWithServerSnapshot ==
  [][\A c \in calls :
       (Completed(c, "ok") /\ c.op \in UpdateOps \cup {"create"}) =>
         /\ Count(items', The(c.res).id) = 1
         /\ Entry(items', The(c.res).id) = The(c.res)]_vars

\* the response of an update-type write on a cached item has just been
\* processed and the entry carries a version the backend assigned
C3_Witness ==
  /\ last.act = "ok" /\ last.op \in UpdateOps /\ last.cached
  /\ Count(items, last.itemId) = 1
  /\ Entry(items, last.itemId).version > 1

(* ---------- C4 ---------- *)

\* C4: when updateItem(X, changes) is rejected with code 'conflict', exactly
\* one entry is appended to the error queue; its kind and code are
\* 'conflict', its itemId is X and its changes are the payload passed.
C4_ConflictEntry ==
  [][\A c \in calls :
       (Completed(c, "err") /\ c.op = "update" /\ c.code = "conflict") =>
         /\ Len(errorQueue') = Len(errorQueue) + 1
         /\ SubSeq(errorQueue', 1, Len(errorQueue)) = errorQueue
         /\ errorQueue'[Len(errorQueue')].kind = "conflict"
         /\ errorQueue'[Len(errorQueue')].code = "conflict"
         /\ errorQueue'[Len(errorQueue')].itemId = c.itemId
         /\ errorQueue'[Len(errorQueue')].changes = Some(c.arg)]_vars

\* an updateItem has just been rejected as a conflict
C4_Witness ==
  /\ last.act = "fail" /\ last.op = "update"
  /\ errorQueue # <<>>
  /\ errorQueue[Len(errorQueue)].code = "conflict"

(* ---------- C5 ---------- *)

\* C5: a failed request of any write the store exposes (update, delete,
\* adjust quantity, set quantity, check out, check in, set low-stock
\* threshold, move) enqueues an entry with the error code, the id of the
\* target item and, for the writes that change fields, the intended changes.
C5_EveryFailureCarriesTarget ==
  [][\A c \in calls :
       (Completed(c, "err") /\ c.op \in UpdateOps \cup {"delete"}) =>
         /\ Len(errorQueue') = Len(errorQueue) + 1
         /\ errorQueue'[Len(errorQueue')].code =
              (IF c.code = UNDEF THEN "unknown_error" ELSE c.code)
         /\ errorQueue'[Len(errorQueue')].itemId = c.itemId
         /\ c.op \in UpdateOps => errorQueue'[Len(errorQueue')].changes # None]_vars


(* ---------- C6 ---------- *)

\* C6: calling createItem makes the new item appear in the cached list in
\* the state right after the call, before the create request is answered.
C6_CreateShownImmediately ==
  [][\A c \in calls' :
       (Issued(c) /\ c.op = "create") =>
         /\ Len(items') = Len(items) + 1
         /\ \E i \in 1..Len(items') : items'[i].name = c.arg.name]_vars

(* ---------- C7 ---------- *)

UpsertActions == {"created", "updated", "moved", "checked_out", "checked_in",
                  "quantity_changed"}

\* the subscription callback runs on the oldest event in this step (when
\* the subscription is replaced instead, its undelivered events are dropped)
Delivered == events # <<>> /\ events' = Tail(events) /\ itemsUnsub' = itemsUnsub

\* C7: once the response of a successful createItem is processed the cache
\* holds exactly one entry for the created item, with the id and version
\* the backend assigned, whether the item's 'created' event was delivered
\* before the response or is delivered after it.
C7_CreatedOnceWithServerIdentity ==
  [][/\ \A c \in calls :
          (Completed(c, "ok") /\ c.op = "create") =>
            /\ Count(items', The(c.res).id) = 1
            /\ Entry(items', The(c.res).id).id = The(c.res).id
            /\ Entry(items', The(c.res).id).version = The(c.res).version
     /\ (Delivered /\ Head(events).action = "created"
         /\ FindIndex(items, Head(events).item.id) > 0) =>
            /\ Count(items', Head(events).item.id) = 1
            /\ Entry(items', Head(events).item.id).version = Head(events).item.version
    ]_vars

\* the create response has just been processed, and the item was in the
\* cache already because its 'created' event had been delivered first
C7_Witness ==
  /\ last.act = "ok" /\ last.op = "create" /\ last.cached
  /\ Count(items, last.itemId) = 1

(* ---------- C8 ---------- *)

\* C8: calling deleteItem on a cached item removes it: in the state right
\* after the call, with the delete request unanswered, the list holds no
\* entry for the item and the other entries as before.
C8_DeleteRemovesImmediately ==
  [][\A c \in calls' :
       (Issued(c) /\ c.op = "delete" /\ FindIndex(items, c.itemId) > 0) =>
         /\ Count(items', c.itemId) = 0
         /\ items' = Others(items, c.itemId)]_vars

\* deleteItem has just been called on a cached item and is unanswered
C8_Witness ==
  /\ last.act = "call" /\ last.op = "delete" /\ last.cached
  /\ \E c \in calls : c.op = "delete" /\ c.st = "sent" /\ c.before # None
  /\ Count(items, last.itemId) = 0
  /\ items # <<>>

(* ---------- C9 ---------- *)

\* C9: when the request of deleteItem on a cached item fails, the item is
\* back at the index it had when deleteItem was called, with the field
\* values it had then.
C9_DeleteRollbackSamePosition ==
  [][\A c \in calls :
       (Completed(c, "err") /\ c.op = "delete" /\ c.before # None) =>
         /\ FindIndex(items', c.itemId) = c.at
         /\ Entry(items', c.itemId) = The(c.before)]_vars

(* ---------- C10 ---------- *)

\* C10: delivering an items event with action created, updated, moved,
\* checked_out, checked_in or quantity_changed leaves exactly one entry for
\* the event's item, equal to the event's snapshot; delivering a deleted
\* event leaves no entry for it; the other entries stay as they were.
C10_EventUpsertsOrRemoves ==
  [][Delivered =>
       /\ Others(items', Head(events).item.id) = Others(items, Head(events).item.id)
       /\ Head(events).action \in UpsertActions =>
            /\ Count(items', Head(events).item.id) = 1
            /\ Entry(items', Head(events).item.id) = Head(events).item
       /\ Head(events).action = "deleted" =>
            Count(items', Head(events).item.id) = 0]_vars

\* an upsert event for an item the cache held has just been delivered and
\* the cache holds other items as well
C10_Witness ==
  /\ last.act = "event" /\ last.op \in UpsertActions /\ last.cached
  /\ Count(items, last.itemId) = 1
  /\ Len(items) > 1

(* ---------- C11 ---------- *)

Quiescent == calls = {} /\ events = <<>>

\* C12: once every outstanding request has completed and every push event
\* has been delivered, each cached item equals the backend's current
\* snapshot of that item, whatever the interleaving of local writes and of
\* push events caused by other clients.
C12_ConvergedAtQuiescence ==
  Quiescent => \A i \in 1..Len(items) : srv[items[i].id] = Some(items[i])

(* ---------- C13 ---------- *)

\* this step is a call of setFilters
SetFiltersCalled == nWrites' = nWrites + 1 /\ last'.act = "setFilters"

\* the outstanding first-page requests for the filters f
FirstPageRequests(cs, f) ==
  {c \in cs : c.op = "list" /\ c.arg.reset /\ c.arg.key = ListKey(f, NULL, TRUE)}

\* C13 as stated: a call of setFilters leaves the cursor null and the list
\* empty and sends a new first-page request built from the new filters.
C13_SetFiltersSendsRequest ==
  [][SetFiltersCalled =>
       /\ cursor' = NULL
       /\ items' = <<>>
       /\ FirstPageRequests(calls' \ calls, filters') # {}]_vars

\* C13, amended: a call of setFilters leaves the cursor null and the list
\* empty, and right after it exactly one first-page request with the new
\* filter values is outstanding: the call sends it, unless a request with
\* identical parameters was outstanding already, and then it sends nothing.
C13_SetFiltersResetsAndLoads ==
  [][SetFiltersCalled =>
       /\ cursor' = NULL
       /\ items' = <<>>
       /\ Cardinality(FirstPageRequests(calls', filters')) = 1
       /\ IF FirstPageRequests(calls, filters') = {}
          THEN /\ Cardinality(calls' \ calls) = 1
               /\ \A c \in calls' \ calls :
                    c \in FirstPageRequests(calls', filters') /\ c.st = "sent"
          ELSE calls' = calls]_vars

\* setFilters has just been called and the first-page request for the new
\* filters is one that was outstanding before the call
C13_Witness ==
  /\ last.act = "setFilters"
  /\ cursor = NULL /\ items = <<>>
  /\ \E c \in FirstPageRequests(calls, filters) : c.n # nWrites

(* ---------- C14 ---------- *)

\* the items subscriptions that are active at the backend
ItemsSubs == {s \in subs : s.topic = "items"}

\* the location scope of an items subscription equals the filters'
ScopeOf(f, s) ==
  /\ s.location_id = f.locationId
  /\ s.include_subtree = f.includeSubtree

\* exactly one items subscription is active, it is the one the store
\* holds, its scope is the current filters', and no subscription that the
\* store made earlier is still active
OneScopedSubscription ==
  /\ Cardinality(ItemsSubs) = 1
  /\ \A s \in ItemsSubs : s.id = itemsUnsub /\ ScopeOf(filters, s)
  /\ \A s \in subs : s.id \in {itemsUnsub, statsUnsub, locationsUnsub}

\* C14: once init has settled, and whatever setFilters calls were made, the
\* store holds exactly one active items subscription, scoped to the current
\* filters' locationId and includeSubtree, and every subscription it made
\* earlier has been unsubscribed.
C14_OneItemsSubscription ==
  initPc \in {"ready", "failed"} => OneScopedSubscription

(* ---------- C15 ---------- *)

\* the outstanding list requests with the parameters k
ListRequests(cs, k) == {c \in cs : c.op = "list" /\ c.arg.key = k}

\* this step calls prefetchIfNeeded and gets past its two early returns
PrefetchLists ==
  /\ nWrites' = nWrites + 1 /\ last'.act = "prefetch"
  /\ last'.ratio >= 70 /\ cursor # NULL

\* this step is init going on from its refreshes to listItems(true)
InitLists == initPc = "refreshing" /\ initPc' = "listing"

\* this step calls listItems with the parameters k
ListItemsCalled(k) ==
  \/ SetFiltersCalled /\ k = ListKey(filters', NULL, TRUE)
  \/ PrefetchLists /\ k = ListKey(filters, cursor, FALSE)
  \/ InitLists /\ k = ListKey(filters, cursor, TRUE)

\* every parameter combination a list request can carry
ListKeys ==
  [location_id : {UNDEF, "L1"}, include_subtree : BOOLEAN,
   cursor : {UNDEF} \cup AllIds]

\* C15: a listItems call made while a list request with identical
\* parameters is outstanding sends nothing; an init that made such a call
\* goes on when that first request succeeds and ends when it fails; and at
\* every moment at most one list request is outstanding per parameter
\* combination.
C15_IdenticalListReused ==
  [][/\ \A k \in ListKeys :
          /\ Cardinality(ListRequests(calls', k)) <= 1
          /\ (ListItemsCalled(k) /\ ListRequests(calls, k) # {})
               => calls' \subseteq calls
     /\ \A c \in calls :
          (c.op = "list" /\ initPc = "listing" /\ initKey = Some(c.arg.key)) =>
             /\ Completed(c, "ok") => initPc' = "ready"
             /\ Completed(c, "err") => initPc' = "failed"
             /\ c \in calls' => initPc' = "listing"]_vars

\* init has called listItems(true) while the identical request of a
\* setFilters call was outstanding: it waits for that request
C15_Witness ==
  /\ initPc = "listing"
  /\ \E c \in calls :
       /\ c.op = "list" /\ initKey = Some(c.arg.key)
       /\ c.by = "setFilters"

(* ---------- C16 ---------- *)

\* this step is a call of prefetchIfNeeded
PrefetchCalled == nWrites' = nWrites + 1 /\ last'.act = "prefetch"

\* a next-page request for the stored cursor and the current filters
NextPageRequests(cs) ==
  {c \in cs : c.op = "list" /\ ~c.arg.reset /\
              c.arg.key = ListKey(filters, cursor, FALSE)}

\* the entries of the page whose ids the list does not hold
Uncached(its, page) == SelectSeq(page, LAMBDA e : FindIndex(its, e.id) = 0)

\* the response of a next-page request is merged: the entries loaded
\* before keep their places, the page's entries that were not cached follow
\* them, the cursor is the response's next_cursor
PageAppended ==
  \A c \in calls :
    (Completed(c, "ok") /\ c.op = "list" /\ ~c.arg.reset) =>
       /\ cursor' = c.next
       /\ Len(items') = Len(items) + Len(Uncached(items, c.page))
       /\ \A i \in 1..Len(items) : items'[i].id = items[i].id
       /\ \A i \in 1..Len(Uncached(items, c.page)) :
            items'[Len(items) + i] = Uncached(items, c.page)[i]

\* C16 as stated: prefetchIfNeeded(r) sends a next-page request exactly
\* when r >= 0.7 and the stored cursor is non-null; its response is
\* appended; otherwise nothing is sent and items and cursor stay.
C16_PrefetchExactlyWhen ==
  [][/\ PrefetchCalled =>
          /\ items' = items /\ cursor' = cursor
          /\ IF last'.ratio >= 70 /\ cursor # NULL
             THEN /\ Cardinality(calls' \ calls) = 1
                  /\ calls' \ calls \subseteq NextPageRequests(calls')
             ELSE calls' = calls
     /\ PageAppended]_vars

\* C16, amended: prefetchIfNeeded(r) sends a next-page request exactly when
\* r >= 0.7, the stored cursor is non-null and no list request with the
\* same filters and cursor is outstanding; its response is appended; in
\* every other case nothing is sent and items and cursor stay.
C16_PrefetchUnlessOutstanding ==
  [][/\ PrefetchCalled =>
          /\ items' = items /\ cursor' = cursor
          /\ IF /\ last'.ratio >= 70 /\ cursor # NULL
                /\ NextPageRequests(calls) = {}
             THEN /\ Cardinality(calls' \ calls) = 1
                  /\ calls' \ calls \subseteq NextPageRequests(calls')
                  /\ \A c \in calls' \ calls : c.st = "sent"
             ELSE calls' = calls
     /\ PageAppended]_vars

\* prefetchIfNeeded has just been called past the threshold with a cursor
\* stored, and the next-page request for that cursor is one that an earlier
\* call sent
C16_Witness ==
  /\ last.act = "prefetch" /\ last.ratio >= 70
  /\ cursor # NULL
  /\ \E c \in NextPageRequests(calls) : c.n # nWrites

(* ---------- C17 ---------- *)

\* the operations that change items
WriteOps == UpdateOps \cup {"create", "delete"}

\* the write requests this step sends
WritesSent == {c \in calls' : Issued(c) /\ c.op \in WriteOps}

\* this step is the UI calling a write method of the store
WriteCalled == nWrites' = nWrites + 1 /\ last'.act = "call"

\* this step is the Re-apply button of an error entry
ReapplyPressed == last'.act = "reapply" /\ Len(errorQueue') < Len(errorQueue)

\* the error entries this step takes out of the queue
Dismissed ==
  {errorQueue[i] : i \in 1..Len(errorQueue)} \
  {errorQueue'[i] : i \in 1..Len(errorQueue')}

\* C17: a call of a write method sends exactly one request, for the called
\* operation and item; Re-apply sends exactly one update with the itemId
\* and the changes of its conflict entry; and no other step of the store,
\* the handling of a failure included, sends a write request.
C17_NoAutomaticRetry ==
  [][/\ WriteCalled =>
          /\ Cardinality(WritesSent) = 1
          /\ \A c \in WritesSent :
               c.op = last'.op /\ c.itemId = last'.itemId /\ c.by = "ui"
     /\ ReapplyPressed =>
          /\ Cardinality(WritesSent) = 1
          /\ \A c \in WritesSent :
               /\ c.op = "update" /\ c.by = "reapply"
               /\ \E e \in Dismissed :
                    /\ e.kind = "conflict"
                    /\ e.itemId = c.itemId
                    /\ e.changes = Some(c.arg)
     /\ ~(WriteCalled \/ ReapplyPressed) => WritesSent = {}]_vars

\* Re-apply has just been pressed on the entry of a rejected update: the
\* entry is gone and one update request is on its way
C17_Witness ==
  /\ last.act = "reapply"
  /\ nErr >= 1 /\ errorQueue = <<>>
  /\ \E c \in calls : c.by = "reapply" /\ c.op = "update" /\ c.st = "sent"

(* ---------- C18 ---------- *)

\* C18: whenever a request of the store ends in a failure (an item write,
\* a first-page or next-page list request, a refresh of stats, areas or
\* locations), the step that handles the failure appends an entry to the
\* error queue.
C18_EveryFailureQueued ==
  [][\A c \in calls :
       Completed(c, "err") => Len(errorQueue') = Len(errorQueue) + 1]_vars

(* ---------- C19 ---------- *)

\* in this step the backend answers the request c with a
Handled(c, a) ==
  /\ c \in calls /\ c \notin calls' /\ c.st = "sent"
  /\ a \in calls' /\ a \notin calls
  /\ a = Answer(c, a.st, a.res, a.code)
  /\ a.code # UNDEF

\* the command c names an existing item and an expected version that is not
\* the item's current version
Stale(c) ==
  /\ c.op \in UpdateOps \cup {"delete"}
  /\ srv[c.itemId] # None
  /\ c.ev # NoVersion
  /\ c.ev # The(srv[c.itemId]).version

\* C19: a mutating command on an existing item whose expected_version
\* differs from the item's current version is answered with a conflict
\* error, and the backend's items, their versions included, and the events
\* it has sent are as they were before the command.
C19_StaleVersionRejected ==
  [][\A c \in calls : \A a \in calls' :
       (Handled(c, a) /\ Stale(c)) =>
          /\ a.st = "err" /\ a.code = "conflict"
          /\ srv' = srv
          /\ events' = events]_vars

\* a command with expected version 1 has been answered with a conflict
\* and the item it names is at another version
C19_Witness ==
  \E c \in calls :
    /\ c.st = "err" /\ c.code = "conflict"
    /\ c.ev = 1
    /\ srv[c.itemId] # None
    /\ The(srv[c.itemId]).version = 2

(* ---------- C20 ---------- *)

\* C20: an item is created with version 1; every accepted mutation of it
\* makes its version exactly one higher, in the backend's copy and in the
\* result returned; a rejected command changes no item; and no item changes
\* in any field without its version going up by one.
C20_VersionCountsMutations ==
  [][/\ \A id \in AllIds :
          /\ (srv[id] = None /\ srv'[id] # None) => The(srv'[id]).version = 1
          /\ (srv[id] # None /\ srv'[id] # None /\ srv'[id] # srv[id]) =>
                The(srv'[id]).version = The(srv[id]).version + 1
     /\ \A c \in calls : \A a \in calls' :
          Handled(c, a) =>
            /\ (a.st = "ok" /\ c.op \in UpdateOps) =>
                  /\ srv[c.itemId] # None
                  /\ srv'[c.itemId] = a.res
                  /\ The(a.res).version = The(srv[c.itemId]).version + 1
            /\ (a.st = "ok" /\ c.op = "create") => The(a.res).version = 1
            /\ a.st = "err" => srv' = srv]_vars

\* an item created at version 1 has been changed by another client and then
\* by an accepted command of this client: the result carries version 3
C20_Witness ==
  \E c \in calls :
    /\ c.st = "ok" /\ c.op \in UpdateOps
    /\ srv[c.itemId] = c.res
    /\ The(c.res).version = 3

(* ---------- C21 ---------- *)

\* the positions of the batch b whose operations succeeded
Successes(b) == {i \in 1..Len(b.results) : b.results[i].success}

\* the successful operations of b on the item id other than deletes
Mutations(b, id) ==
  {i \in Successes(b) : b.ops[i].itemId = id /\ b.ops[i].op # "delete"}

\* C21: in a bulk batch every operation has its own outcome; an operation
\* that is acceptable on its own succeeds whatever failed before it; what
\* the successful operations did stays done (each item's version counts
\* them, a deleted item is gone); and the batch sends one stats/counts
\* notification if at least one operation succeeded, none otherwise.
C21_BulkIsolatesFailures ==
  bulk # None =>
    LET b == The(bulk)
    IN /\ Len(b.results) = Len(b.ops)
       /\ \A i \in 1..Len(b.ops) :
            b.ops[i].op = "adjust_quantity" => i \in Successes(b)
       /\ \A id \in SeedIds :
            /\ srv[id] = None <=>
                 \E i \in Successes(b) : b.ops[i].itemId = id /\ b.ops[i].op = "delete"
            /\ srv[id] # None =>
                 The(srv[id]).version = 1 + Cardinality(Mutations(b, id))
       /\ b.stats = IF Successes(b) = {} THEN 0 ELSE 1

\* a batch of five whose third operation is invalid: four successes, one
\* failure with its error code, one stats/counts notification
C21_Witness ==
  /\ bulk # None
  /\ Len(The(bulk).ops) = 5
  /\ Successes(The(bulk)) = {1, 2, 4, 5}
  /\ The(bulk).results[3].code = "validation_error"
  /\ The(bulk).stats = 1

(* ---------- C22 ---------- *)

\* the rule for an items subscription s and a changed item
Routed(s, item) ==
  \/ s.location_id = NULL
  \/ /\ s.include_subtree
     /\ s.location_id \in {IdPath(item.location_id)[i] :
                             i \in 1..Len(IdPath(item.location_id))}
  \/ /\ ~s.include_subtree
     /\ item.location_id = s.location_id

\* the item as the change notification of this step carries it
ChangedItem(id) == IF srv'[id] = None THEN The(srv[id]) ELSE The(srv'[id])

\* the events this step adds for the subscription with the id n
SentTo(n) ==
  {i \in Len(events) + 1 .. Len(events') : events'[i].sub = n}

\* C22: when the backend commits a change of an item, each items
\* subscription of the connection is sent the change notification exactly
\* when it has no location scope, or it includes the subtree and its scope
\* location is on the item's id_path, or it does not and the item's
\* location_id is its scope location; it is sent once, and subscriptions
\* to other topics are sent none.
C22_RoutedByScope ==
  [][\A id \in AllIds :
       srv'[id] # srv[id] =>
         /\ Len(events') >= Len(events)
         /\ SubSeq(events', 1, Len(events)) = events
         /\ \A s \in subs :
              /\ \A i \in SentTo(s.id) : events'[i].item = ChangedItem(id)
              /\ Cardinality(SentTo(s.id)) =
                   IF s.topic = "items" /\ Routed(s, ChangedItem(id))
                   THEN 1 ELSE 0]_vars

\* an item was moved below the scope location of a subtree subscription and
\* the notification is on its way to that subscription
C22_Witness ==
  /\ events # <<>>
  /\ Head(events).item.location_id = "L2"
  /\ \E s \in subs :
       /\ s.id = Head(events).sub /\ s.topic = "items"
       /\ s.location_id = "L1" /\ s.include_subtree

(* ---------- C23 ---------- *)

\* C23: when the fetch of refreshItem(X) succeeds, the cache afterwards
\* holds the fetched snapshot as its one entry for X, at the place of the
\* entry it replaces, the other entries and the error queue are as before;
\* when the fetch fails, one error entry is added and the item list is
\* unchanged.
C23_ViewLatestOverwrites ==
  [][\A c \in calls :
       c.op = "get" =>
         /\ Completed(c, "ok") =>
              /\ Count(items', c.itemId) = 1
              /\ Entry(items', c.itemId) = The(c.res)
              /\ Others(items', c.itemId) = Others(items, c.itemId)
              /\ FindIndex(items, c.itemId) > 0 =>
                   FindIndex(items', c.itemId) = FindIndex(items, c.itemId)
              /\ errorQueue' = errorQueue
         /\ Completed(c, "err") =>
              /\ Len(errorQueue') = Len(errorQueue) + 1
              /\ SubSeq(errorQueue', 1, Len(errorQueue)) = errorQueue
              /\ items' = items]_vars

\* View latest has fetched an item that another client had changed: the
\* cache entry is the backend's snapshot at version 2
C23_Witness ==
  /\ last.act = "ok" /\ last.op = "get" /\ last.cached
  /\ srv[last.itemId] = Some(Entry(items, last.itemId))
  /\ Entry(items, last.itemId).version = 2

(* ---------- C24 ---------- *)

\* this step runs the wrapped function
FnRan == Len(fnRuns') = Len(fnRuns) + 1

\* some call of the debounced function has not been followed by a run
CallWaiting ==
  /\ debCalls # <<>>
  /\ fnRuns = <<>> \/ fnRuns[Len(fnRuns)].n < Len(debCalls)

\* C24: the wrapped function runs only when the delay has elapsed since
\* the most recent call, with the arguments of that call, and once for it
\* (no second run without a new call); while a call waits exactly one
\* timeout is pending, set to the delay after the most recent call, so
\* every call restarts the waiting; and without a waiting call nothing is
\* pending.
C24_DebouncedOncePerBurst ==
  [][/\ FnRan =>
          /\ debCalls # <<>>
          /\ fnRuns'[Len(fnRuns')].args = debCalls[Len(debCalls)].args
          /\ clock >= debCalls[Len(debCalls)].at + DebounceMs
          /\ CallWaiting
     /\ CallWaiting' =>
          /\ Cardinality(timers') = 1
          /\ \A t \in timers' :
               /\ t.due = debCalls'[Len(debCalls')].at + DebounceMs
               /\ t.args = debCalls'[Len(debCalls')].args
               /\ clock' <= t.due
     /\ ~CallWaiting' => timers' = {}]_vars

\* a burst of two calls with different arguments, the second before the
\* delay of the first had elapsed, then one run, with the second's arguments
C24_Witness ==
  /\ Len(debCalls) = 2 /\ Len(fnRuns) = 1
  /\ debCalls[2].at < debCalls[1].at + DebounceMs
  /\ debCalls[1].args # debCalls[2].args
  /\ fnRuns[1].args = debCalls[2].args
  /\ fnRuns[1].at = debCalls[2].at + DebounceMs

(* ---------- C25 ---------- *)

\* this step is a call of onSave
SavePressed == presses' = presses + 1

\* the fields hold what may be saved: a name that is not blank, a whole
\* quantity that is not negative, a threshold that is empty or not negative
Saveable ==
  /\ Trim(_name) # ""
  /\ _quantity >= 0 /\ _quantity % 2 = 0
  /\ _lowStock = NoLowStock \/ _lowStock >= 0

\* C25: onSave sends a save event only when the trimmed name is not empty,
\* the quantity is an integer >= 0 and the low-stock threshold is empty or
\* >= 0; otherwise it sends none and sets a validation message; and the
\* payload it sends has due_date null whenever checked_out is false.
C25_SaveOnlyWhenValid ==
  [][SavePressed =>
       /\ saved' # None => Saveable
       /\ ~Saveable => saved' = None /\ _validation' # NULL
       /\ \A d \in saved' : ~d.checked_out => d.due_date = NULL]_vars

(* ---------- C26 ---------- *)

\* the request was issued under filters other than the present ones
UnderEarlierFilters(c) ==
  \/ c.arg.key.location_id # ListKey(filters, NULL, TRUE).location_id
  \/ c.arg.key.include_subtree # filters.includeSubtree

\* C26: the response to a list or prefetch request that was issued under
\* earlier filters adds no item to the list loaded for the latest filters
\* and leaves its cursor as it is.
C26_StaleListResponseIgnored ==
  [][\A c \in calls :
       Completed(c, "ok") /\ c.op = "list" /\ UnderEarlierFilters(c) =>
         /\ \A i \in 1..Len(items') : Count(items, items'[i].id) > 0
         /\ cursor' = cursor]_vars

(* ---------- C27 ---------- *)

\* the response of a write on an item that was cached when the write was
\* called and has left the cache since
AnsweredAfterRemoval(c) ==
  /\ c.op \in UpdateOps
  /\ Completed(c, "ok") \/ Completed(c, "err")
  /\ c.before # None
  /\ Count(items, c.itemId) = 0

\* C27: the completion of a write, by reconciliation or by rollback, does
\* not put back an item that a 'deleted' event or the item's own deleteItem
\* has removed from the cache since the write was called.
C27_RemovedItemStaysRemoved ==
  [][\A c \in calls :
       AnsweredAfterRemoval(c) => Count(items', c.itemId) = 0]_vars

(* ---------- C28 ---------- *)

\* the failure of c is the second of two failures of writes on a cached
\* item that overlapped: either c is the first call, answered after the
\* second, or c is the second call and was made on the value the first
\* call had put into the cache
SecondOfTwoFailures(c) ==
  /\ c.op \in UpdateOps /\ Completed(c, "err")
  /\ nErr' = 2
  /\ c.before # None
  /\ c.n = 1 \/ c.before # srv[c.itemId]
  /\ \A d \in calls' : d.op \notin UpdateOps

\* C28: when two overlapping writes on a cached item have both failed, the
\* cache entry is the snapshot from before the first write, whatever the
\* order of the failures. (Under SpecOverlap nobody else writes, so with
\* both writes failed that snapshot is the backend's item.)
C28_BothRolledBack ==
  [][\A c \in calls :
       SecondOfTwoFailures(c) => Find(items', c.itemId) = srv[c.itemId]]_vars

(* ---------- C29 ---------- *)

\* C29: the update request the card sends for an edit made in the item
\* dialog carries expected_version equal to the version of the cached
\* snapshot the dialog was opened with (and so does a Re-apply request).
C29_EditCarriesExpectedVersion ==
  [][\A c \in calls' :
       Issued(c) /\ c.by = "dialog" => c.ev = The(dlgItem).version]_vars

(* ---------- C30 ---------- *)

\* C30: once init has completed and, with no call of the UI made, every
\* request has completed and every push event has been delivered, each
\* cached item is the backend's current item: no change the backend
\* committed after it produced the first page is missing from the cache.
C30_NoChangeLostDuringInit ==
  initPc = "ready" /\ nWrites = 0 /\ Quiescent =>
    \A i \in 1..Len(items) : srv[items[i].id] = Some(items[i])

(* ---------- C31 ---------- *)

\* C31: the quantity of every cached item is >= 0 in every reachable state,
\* the speculative state of an adjustQuantity or setQuantity call included.
C31_QuantityNeverNegative ==
  \A i \in 1..Len(items) : items[i].quantity >= 0

(* ---------- C32 ---------- *)

\* C32: every cached item that is not checked out has due_date null, the
\* speculative state of a markCheckedIn call included.
C32_NoDueDateUnlessCheckedOut ==
  \A i \in 1..Len(items) : ~items[i].checked_out => items[i].due_date = NULL

(* ---------- C33 ---------- *)

\* the requests of create, update and delete operations that the store has
\* not finished with
TrackedCalls == {c \in calls : c.opId # None}

\* C33: pendingOps holds one entry for each create, update or delete
\* operation whose request is outstanding, each operation its own, and no
\* other entry; it is empty when no such request is outstanding.
C33_PendingOpsTracksRequests ==
  /\ \A c \in TrackedCalls : The(c.opId) \in DOMAIN pendingOps
  /\ Cardinality(DOMAIN pendingOps) = Cardinality(TrackedCalls)

(* ---------- C34 ---------- *)

\* the queue has grown by one entry at its end, and that entry has the
\* code of the rejected request c and the kind that goes with the code
OneEntryAppended(c) ==
  /\ Len(errorQueue') = Len(errorQueue) + 1
  /\ SubSeq(errorQueue', 1, Len(errorQueue)) = errorQueue
  /\ LET e == errorQueue'[Len(errorQueue')]
     IN /\ e.code = IF c.code = UNDEF THEN "unknown_error" ELSE c.code
        /\ e.kind = IF e.code = "conflict" THEN "conflict" ELSE "error"

\* C34: each failed store operation appends exactly one entry at the end
\* of the error queue and leaves the earlier entries unchanged; the entry's
\* code is the code of the rejected request, or 'unknown_error' when the
\* error carries none, and its kind is 'conflict' exactly when the code is
\* 'conflict' and 'error' otherwise.
C34_FailureAppendsOneEntry ==
  [][\A c \in calls : Completed(c, "err") => OneEntryAppended(c)]_vars

(* ---------- C35 ---------- *)

\* this step is a call of dismissError
DismissCalled == last'.act = "dismiss" /\ last' # last

\* the entries of the queue q, as a set
EntriesOf(q) == {q[i] : i \in 1..Len(q)}

\* the entries of q stand in the order they have in p
SameOrder(q, p) ==
  \A i, j \in 1..Len(q) :
    i < j => \E a, b \in 1..Len(p) : a < b /\ p[a] = q[i] /\ p[b] = q[j]

\* C35: dismissError(id) takes the entry with that id out of the queue
\* and nothing else: the other entries stay, in their order, the item list
\* and the cursor are unchanged, and with an id that the queue does not
\* hold nothing changes.
C35_DismissRemovesOnlyThatEntry ==
  [][DismissCalled =>
       /\ EntriesOf(errorQueue') = {e \in EntriesOf(errorQueue) : e.id # last'.id}
       /\ Len(errorQueue') = Cardinality(EntriesOf(errorQueue'))
       /\ SameOrder(errorQueue', errorQueue)
       /\ items' = items /\ cursor' = cursor
       /\ ~last'.found => errorQueue' = errorQueue]_vars

\* the oldest of three entries has been dismissed, the other two are left
C35_Witness ==
  /\ last.act = "dismiss" /\ last.found /\ last.id = 1
  /\ Len(errorQueue) = 2 /\ errorQueue[1].id = 2 /\ errorQueue[2].id = 3
  /\ items # <<>>

(* ---------- C36 ---------- *)

\* C36: a card creates at most one Store and calls its init at most once,
\* however often hass is set, and whatever the sequence of connect and
\* disconnect callbacks it holds at most one listener on the store.
C36_OneStoreOneListener ==
  /\ nStores <= 1
  /\ nInits <= 1
  /\ Cardinality(listeners) <= 1

\* hass has been set again with the store in place, and the card has
\* registered its listener a second time after a disconnect
C36_Witness ==
  /\ nHassSets >= 2 /\ nStores = 1 /\ nInits = 1
  /\ nextListener = 3 /\ listeners = {2} /\ _storeUnsub = 2

====
